---- MODULE Spec2Model ----
(***************************************************************************)
(* Model of the data-fetching layer of stock_analyzer/services.py:         *)
(*   - request_cached / rate_limit decorators, run by several threads      *)
(*     against the process-wide _request_cache and _request_cache_lock;    *)
(*   - the SEC-first / Polygon-fallback orchestrators;                     *)
(*   - the scoring aggregator calculate_investment_score.                  *)
(* Time is the wall clock read by datetime.now(), in seconds.              *)
(***************************************************************************)
EXTENDS Integers, Sequences, FiniteSets, TLC

VARIABLES
    clock,      \* datetime.now(), seconds since process start
    cache,      \* _request_cache: key -> [time, result]
    lock,       \* _request_cache_lock: "free" or the thread holding it
    pc,         \* per thread: position inside the decorated call
    frame,      \* per thread: locals of the call in progress / just completed
    last,       \* record of the last orchestrator / scoring call
    table,      \* rows of the EconomicIndicator table
    fred,       \* the FRED service: reachable or not, and its revision
    reports,    \* rows of the Report table: id -> [name, submitted_text]
    fetcher     \* the fetcher object and the locals of its fetch in progress

vars == <<clock, cache, lock, pc, frame, last, table, fred, reports, fetcher>>

---------------------------------------------------------------------------
(* Bounds of the model *)

\* the clock stops advancing here
MaxClock == 450
\* seconds added by one Tick
TickStep == 150

Threads == {"t1", "t2"}

\* Python's None
None == "None"

---------------------------------------------------------------------------
(* The decorators: which function carries which (services.py:78-80,       *)
(* 167-169, 307-309, 383-385, 558-560, 608-610, 664-666, 707, 746, 821)    *)

\* (function, positional args) pairs the threads call
CallSet ==
    { <<"get_company_info", "AAPL">>,
      <<"get_company_info_with_fallback", "AAPL">>,
      <<"get_economic_indicator", "DFF">> }

\* @rate_limit(seconds) and its argument
RateLimitSeconds(fn) ==
    CASE fn = "get_company_info" -> 3
      [] fn = "get_financial_ratios" -> 4
      [] fn = "get_insider_transactions" -> 3
      [] fn = "get_company_info_sec" -> 2
      [] fn = "get_insider_transactions_sec" -> 2
      [] fn = "get_financial_statements" -> 2
      [] fn = "get_financial_ratios_sec" -> 2
      [] fn = "get_economic_indicator" -> 1
      [] OTHER -> 0

RateLimited(fn) == RateLimitSeconds(fn) > 0

\* @request_cached(ttl_seconds=...) and its argument
CacheTTL(fn) ==
    CASE fn \in { "get_company_info", "get_financial_ratios",
                  "get_insider_transactions", "get_company_info_sec",
                  "get_insider_transactions_sec", "get_financial_statements",
                  "get_financial_ratios_sec",
                  "get_financial_ratios_with_fallback",
                  "get_company_info_with_fallback" } -> 300
      [] OTHER -> 0

Cached(fn) == CacheTTL(fn) > 0

\* key = f"{func.__name__}:{str(args)}:{str(kwargs)}": the function name, the
\* printed positional tuple and the printed keyword dictionary
CacheKey(fn, args, kwargs) == <<fn, args, kwargs>>

\* mutant of IsFresh: an entry of age exactly ttl still counts as fresh
IsFresh_inclusive(cacheTime, now, ttl) == now - cacheTime <= ttl

\* (datetime.now() - cache_time).total_seconds() < ttl_seconds
IsFresh(cacheTime, now, ttl) == now - cacheTime < ttl

\* key in _request_cache and not expired
CacheHit(c, key, now, ttl) ==
    key \in DOMAIN c /\ IsFresh(c[key].time, now, ttl)

\* mutant of CachePut: a None result is not stored
CachePut_skipNone(c, key, now, result) ==
    IF result = None THEN c
    ELSE [k \in DOMAIN c \cup {key} |->
             IF k = key THEN [time |-> now, result |-> result] ELSE c[k]]

\* _request_cache[key] = (datetime.now(), result)
CachePut(c, key, now, result) ==
    [k \in DOMAIN c \cup {key} |->
        IF k = key THEN [time |-> now, result |-> result] ELSE c[k]]

\* mutant of LockAfterCheck: a miss leaves the first block with the lock held
LockAfterCheck_heldOnMiss(t, hit) == IF hit THEN "free" ELSE t

\* the lock on leaving the first `with _request_cache_lock:` block, by the
\* return on a hit or by falling out of the block on a miss
LockAfterCheck(t, hit) == "free"

\* what a wrapped function body can produce: a result, None after a caught
\* provider error, or an exception that escapes its own handler
BodyResults == {None, "r1"}
BodyOutcomes == BodyResults \cup {"raise"}

\* what the check found: the entry's age in seconds (-1: no entry) and result
NoSeen == [age |-> -1, result |-> None]

NewFrame(fn, args) ==
    [ fn |-> fn, args |-> args,
      sleeps |-> 0, slept |-> 0,
      rlCalls |-> 0, rlArgs |-> None,
      checks |-> 0, seen |-> NoSeen,
      bodyCalls |-> 0, bodyArgs |-> None,
      stores |-> 0,
      result |-> None, raised |-> FALSE, returned |-> None ]

NoLast == [op |-> "none", stage |-> "done"]

\* an empty Report table; ids are handed out from 1
NoReports == [rows |-> << >>, nextId |-> 1]

\* no fetcher object constructed
NoFetcher == [method |-> "none", pc |-> "done"]

\* the FRED service answering, at its first revision of the observations
FredUp == [up |-> TRUE, rev |-> 1, flips |-> 0]

Init ==
    /\ clock = 0
    /\ table = {}
    /\ reports = NoReports
    /\ fetcher = NoFetcher
    /\ fred = FredUp
    /\ cache = << >>
    /\ lock = "free"
    /\ pc = [t \in Threads |-> "idle"]
    /\ frame = [t \in Threads |-> NewFrame("none", None)]
    /\ last = NoLast

---------------------------------------------------------------------------
(* Steps of one decorated call on thread t *)

\* mutant of Call: a cached function consults the cache before any sleep
Call_cacheFirst(t, fn, args) ==
    /\ pc[t] \in {"idle", "done"}
    /\ frame' = [frame EXCEPT ![t] = NewFrame(fn, args)]
    /\ pc' = [pc EXCEPT ![t] =
                IF Cached(fn) THEN "cache_acquire_check"
                ELSE IF RateLimited(fn) THEN "rl_sleep" ELSE "body"]
    /\ UNCHANGED <<fetcher, reports, fred, table, clock, cache, lock, last>>

\* a thread starts a call of a decorated function
Call(t, fn, args) ==
    /\ pc[t] \in {"idle", "done"}
    /\ frame' = [frame EXCEPT ![t] = NewFrame(fn, args)]
    /\ pc' = [pc EXCEPT ![t] =
                IF RateLimited(fn) THEN "rl_sleep" ELSE "cache_acquire_check"]
    /\ UNCHANGED <<fetcher, reports, fred, table, clock, cache, lock, last>>

\* mutant of RLSleep: the wrapper goes on to the call without sleeping
RLSleep_skipped(t) ==
    /\ pc[t] = "rl_sleep"
    /\ pc' = [pc EXCEPT ![t] = "rl_invoke"]
    /\ UNCHANGED <<fetcher, reports, fred, table, clock, cache, lock, frame, last>>

\* rate_limit.wrapper: time.sleep(seconds)
RLSleep(t) ==
    /\ pc[t] = "rl_sleep"
    /\ frame' = [frame EXCEPT ![t].sleeps = @ + 1,
                              ![t].slept = @ + RateLimitSeconds(frame[t].fn)]
    /\ pc' = [pc EXCEPT ![t] = "rl_invoke"]
    /\ UNCHANGED <<fetcher, reports, fred, table, clock, cache, lock, last>>

\* rate_limit.wrapper: return func(*args, **kwargs) -- the call
RLInvoke(t) ==
    /\ pc[t] = "rl_invoke"
    /\ frame' = [frame EXCEPT ![t].rlCalls = @ + 1,
                              ![t].rlArgs = frame[t].args]
    /\ pc' = [pc EXCEPT ![t] =
                IF Cached(frame[t].fn) THEN "cache_acquire_check" ELSE "body"]
    /\ UNCHANGED <<fetcher, reports, fred, table, clock, cache, lock, last>>

\* request_cached.wrapper: with _request_cache_lock (first block), entry
AcquireCheck(t) ==
    /\ pc[t] = "cache_acquire_check"
    /\ lock = "free"
    /\ lock' = t
    /\ pc' = [pc EXCEPT ![t] = "cache_check"]
    /\ UNCHANGED <<fetcher, reports, fred, table, clock, cache, frame, last>>

\* request_cached.wrapper: the check under the lock, and the block's exit
CacheCheck(t) ==
    /\ pc[t] = "cache_check"
    /\ LET key == CacheKey(frame[t].fn, <<frame[t].args>>, "{}")
           seen == IF key \in DOMAIN cache
                   THEN [age |-> clock - cache[key].time,
                         result |-> cache[key].result]
                   ELSE NoSeen
           f1 == [frame[t] EXCEPT !.checks = @ + 1, !.seen = seen]
           hit == CacheHit(cache, key, clock, CacheTTL(frame[t].fn))
       IN /\ IF hit
             THEN /\ frame' = [frame EXCEPT ![t] =
                                  [f1 EXCEPT !.result = cache[key].result]]
                  /\ pc' = [pc EXCEPT ![t] = "return"]
             ELSE /\ frame' = [frame EXCEPT ![t] = f1]
                  /\ pc' = [pc EXCEPT ![t] = "body"]
          /\ lock' = LockAfterCheck(t, hit)
    /\ UNCHANGED <<fetcher, reports, fred, table, clock, cache, last>>

\* request_cached.wrapper: result = func(*args, **kwargs), or the body of a
\* function that is rate limited only
Body(t, out) ==
    /\ pc[t] = "body"
    /\ LET f1 == [frame[t] EXCEPT !.bodyCalls = @ + 1,
                                  !.bodyArgs = frame[t].args]
       IN IF out = "raise"
          THEN /\ frame' = [frame EXCEPT ![t] = [f1 EXCEPT !.raised = TRUE]]
               /\ pc' = [pc EXCEPT ![t] = "return"]
          ELSE /\ frame' = [frame EXCEPT ![t] = [f1 EXCEPT !.result = out]]
               /\ pc' = [pc EXCEPT ![t] =
                           IF Cached(frame[t].fn) THEN "cache_acquire_store"
                                                  ELSE "return"]
    /\ UNCHANGED <<fetcher, reports, fred, table, clock, cache, lock, last>>

\* request_cached.wrapper: with _request_cache_lock (second block), entry
AcquireStore(t) ==
    /\ pc[t] = "cache_acquire_store"
    /\ lock = "free"
    /\ lock' = t
    /\ pc' = [pc EXCEPT ![t] = "cache_store"]
    /\ UNCHANGED <<fetcher, reports, fred, table, clock, cache, frame, last>>

\* request_cached.wrapper: the store under the lock, and the block's exit
CacheStore(t) ==
    /\ pc[t] = "cache_store"
    /\ cache' = CachePut(cache, CacheKey(frame[t].fn, <<frame[t].args>>, "{}"),
                         clock, frame[t].result)
    /\ frame' = [frame EXCEPT ![t].stores = @ + 1]
    /\ lock' = "free"
    /\ pc' = [pc EXCEPT ![t] = "return"]
    /\ UNCHANGED <<fetcher, reports, fred, table, clock, last>>

\* the outermost wrapper hands the inner result (or exception) to the caller
Return(t) ==
    /\ pc[t] = "return"
    /\ frame' = [frame EXCEPT ![t].returned =
                    IF frame[t].raised THEN "exception" ELSE frame[t].result]
    /\ pc' = [pc EXCEPT ![t] = "done"]
    /\ UNCHANGED <<fetcher, reports, fred, table, clock, cache, lock, last>>

\* wall-clock time passes
Tick ==
    /\ clock + TickStep <= MaxClock
    /\ clock' = clock + TickStep
    /\ UNCHANGED <<fetcher, reports, fred, table, cache, lock, pc, frame, last>>

Next ==
    \/ Tick
    \/ \E t \in Threads : \E c \in CallSet : Call(t, c[1], c[2])
    \/ \E t \in Threads : RLSleep(t)
    \/ \E t \in Threads : RLInvoke(t)
    \/ \E t \in Threads : AcquireCheck(t)
    \/ \E t \in Threads : CacheCheck(t)
    \/ \E t \in Threads : \E out \in BodyOutcomes : Body(t, out)
    \/ \E t \in Threads : AcquireStore(t)
    \/ \E t \in Threads : CacheStore(t)
    \/ \E t \in Threads : Return(t)

Spec == Init /\ [][Next]_vars

---------------------------------------------------------------------------
(* Claims about the decorators, checked under Spec *)

ThreadKey(t) == CacheKey(frame[t].fn, <<frame[t].args>>, "{}")

\* the check of thread t's call found an entry younger than the ttl
SawFresh(t) ==
    /\ frame[t].seen.age >= 0
    /\ frame[t].seen.age < CacheTTL(frame[t].fn)

TTLWindowCalls ==
    \A t \in Threads :
        (pc[t] = "done" /\ Cached(frame[t].fn)) =>
            IF SawFresh(t)
            THEN /\ frame[t].bodyCalls = 0
                 /\ frame[t].stores = 0
                 /\ frame[t].returned = frame[t].seen.result
            ELSE /\ frame[t].bodyCalls = 1
                 /\ frame[t].stores = IF frame[t].raised THEN 0 ELSE 1
                 /\ frame[t].raised \/ frame[t].returned = frame[t].result

TTLWindowStore ==
    \A t \in Threads :
        (pc[t] = "cache_store" /\ pc'[t] = "return") =>
            /\ ThreadKey(t) \in DOMAIN cache'
            /\ cache'[ThreadKey(t)].time = clock
            /\ cache'[ThreadKey(t)].result = frame[t].result

\* C2: a call of a request_cached function whose check finds an entry stored
\* less than ttl seconds before returns that entry's value without invoking
\* the wrapped function (so the storing call and this one invoke it once in
\* total and return the same value); a check that finds no entry, or one of
\* age ttl or more, invokes the function once and replaces the entry with the
\* new result and the current time.
C2_TTLWindow == []TTLWindowCalls /\ [][TTLWindowStore]_vars

\* C2 witness: one completed call answered from an entry younger than the ttl
\* and another that found the entry expired and invoked the function again
C2_Witness ==
    \E t, u \in Threads :
        /\ pc[t] = "done" /\ pc[u] = "done"
        /\ ThreadKey(t) = ThreadKey(u)
        /\ Cached(frame[t].fn)
        /\ SawFresh(t) /\ frame[t].bodyCalls = 0
        /\ frame[u].seen.age >= CacheTTL(frame[u].fn)
        /\ frame[u].bodyCalls = 1 /\ frame[u].stores = 1

LockDiscipline ==
    \A t \in Threads :
        /\ (lock = t) <=> (pc[t] \in {"cache_check", "cache_store"})
        /\ pc[t] = "body" => lock # t

EntriesComplete ==
    \A k \in DOMAIN cache :
        /\ DOMAIN cache[k] = {"time", "result"}
        /\ cache[k].time \in 0..clock
        /\ cache[k].result \in BodyResults

LastStoreWins ==
    \A t \in Threads :
        (pc[t] = "cache_store" /\ pc'[t] # "cache_store") =>
            /\ cache'[ThreadKey(t)] =
                  [time |-> clock, result |-> frame[t].result]
            /\ \A k \in DOMAIN cache :
                  k # ThreadKey(t) => (k \in DOMAIN cache' /\ cache'[k] = cache[k])

\* C3: _request_cache_lock is held exactly while a thread is inside the
\* check block or the store block, never while the wrapped function runs;
\* every entry a reader can see is a complete (timestamp, result) pair; a
\* store overwrites whatever entry the key had and touches no other key.
C3_LockScope == [](LockDiscipline /\ EntriesComplete) /\ [][LastStoreWins]_vars

\* C3 witness: two threads that both missed on one key are inside the
\* wrapped function at the same time, the lock being free
C3_Witness ==
    \E t, u \in Threads :
        /\ t # u
        /\ pc[t] = "body" /\ pc[u] = "body"
        /\ Cached(frame[t].fn)
        /\ ThreadKey(t) = ThreadKey(u)
        /\ lock = "free"

\* C9: a call of a rate_limit function sleeps exactly once, for the fixed
\* duration, before the wrapped function starts; the wrapper invokes the
\* wrapped function once with the caller's arguments and returns its result;
\* an exception leaves the wrapper only if the wrapped function raised it.
C9_RateLimit ==
    \A t \in Threads :
        (frame[t].fn \in {"get_company_info", "get_economic_indicator"}) =>
            /\ pc[t] # "rl_sleep" =>
                  /\ frame[t].sleeps = 1
                  /\ frame[t].slept =
                        (IF frame[t].fn = "get_company_info" THEN 3 ELSE 1)
            /\ pc[t] \in {"rl_sleep", "rl_invoke"} =>
                  /\ frame[t].rlCalls = 0
                  /\ frame[t].checks = 0
                  /\ frame[t].bodyCalls = 0
            /\ pc[t] \notin {"rl_sleep", "rl_invoke"} =>
                  /\ frame[t].rlCalls = 1
                  /\ frame[t].rlArgs = frame[t].args
            /\ pc[t] = "done" =>
                  /\ (frame[t].returned = "exception") <=> frame[t].raised
                  /\ frame[t].raised => frame[t].bodyCalls = 1
                  /\ ~frame[t].raised => frame[t].returned = frame[t].result

\* C9 witness: a rate-limited call has completed after its one sleep, and
\* another has completed with the wrapped function's exception
C9_Witness ==
    \E t, u \in Threads :
        /\ pc[t] = "done" /\ frame[t].fn = "get_economic_indicator"
        /\ frame[t].sleeps = 1 /\ frame[t].returned = "r1"
        /\ pc[u] = "done" /\ frame[u].fn = "get_company_info"
        /\ frame[u].sleeps = 1 /\ frame[u].returned = "exception"

---------------------------------------------------------------------------
(* Data of the orchestrators.  A field value is None, a non-null value that *)
(* Python treats as false (0, 0.0, ""), or a non-empty value; the letter    *)
(* says which provider supplied it.                                         *)

Ticker == "AAPL"

\* bool(v) for a field value
Truthy(v) == v \in {"S1", "P1"}

\* a function result that is None (where the other results are dicts)
NoneResult == [none |-> TRUE]

CompanyKeys ==
    { "stock_symbol", "company_name", "description", "country", "market_cap",
      "website", "logo_url", "employee_count", "sector", "industry" }

\* company_data as get_company_info_sec builds it (services.py:536-547)
SecCompanyRecords ==
    { [ stock_symbol |-> "S1", company_name |-> "S1", description |-> d,
        country |-> "S1", market_cap |-> m, website |-> None,
        logo_url |-> None, employee_count |-> "S1", sector |-> s,
        industry |-> i ] :
      d \in {None, "S1"}, m \in {None, "S0"},
      s \in {None, "S1"}, i \in {None, "S1"} }

\* what the SEC requests of get_company_info_sec end in: an exception, no
\* CIK / no entity name, or company data
SecCompanyOutcomes ==
    { [raise |-> TRUE, rec |-> NoneResult],
      [raise |-> FALSE, rec |-> NoneResult] }
    \cup { [raise |-> FALSE, rec |-> r] : r \in SecCompanyRecords }

\* company_data as get_company_info builds it (services.py:100-111)
PolygonCompanyRecords ==
    { [ stock_symbol |-> "P1", company_name |-> "P1", description |-> d,
        country |-> "P1", market_cap |-> m, website |-> "P1",
        logo_url |-> None, employee_count |-> "P1", sector |-> s,
        industry |-> None ] :
      d \in {None, "P1"}, m \in {None, "P1"}, s \in {None, "P1"} }

\* what polygon_client.get_ticker_details ends in: an exception, details
\* without a name, or ticker details
PolygonCompanyOutcomes ==
    { [raise |-> TRUE, rec |-> NoneResult],
      [raise |-> FALSE, rec |-> NoneResult] }
    \cup { [raise |-> FALSE, rec |-> r] : r \in PolygonCompanyRecords }

\* body of get_company_info_sec: every exception is caught and gives None
get_company_info_sec_body(out) ==
    [ exc |-> FALSE,
      val |-> IF out.raise \/ out.rec = NoneResult THEN NoneResult
              ELSE IF ~Truthy(out.rec.company_name) THEN NoneResult
              ELSE out.rec ]

\* body of get_company_info: every exception is caught and gives None
get_company_info_body(out) ==
    [ exc |-> FALSE,
      val |-> IF out.raise \/ out.rec = NoneResult THEN NoneResult
              ELSE IF ~Truthy(out.rec.company_name) THEN NoneResult
              ELSE out.rec ]

\* One complete call, by a single caller, of a function decorated with
\* rate_limit (outermost, when it has it) and request_cached; body is what
\* the function's body does when the wrapper invokes it.
DecoratedCall(c, now, fn, args, kwargs, body) ==
    LET key == CacheKey(fn, args, kwargs)
        hit == Cached(fn) /\ CacheHit(c, key, now, CacheTTL(fn))
    IN [ sleeps |-> IF RateLimited(fn) THEN <<RateLimitSeconds(fn)>> ELSE << >>,
         hit |-> hit,
         exc |-> ~hit /\ body.exc,
         val |-> IF hit THEN c[key].result
                 ELSE IF body.exc THEN NoneResult ELSE body.val,
         cache |-> IF hit \/ body.exc \/ ~Cached(fn) THEN c
                   ELSE CachePut(c, key, now, body.val) ]

---------------------------------------------------------------------------
(* get_company_info_with_fallback, services.py:746-802 *)

\* mutant of Incomplete: the industry field is not looked at
Incomplete_ignoresIndustry(ci) ==
    \/ ~Truthy(ci.sector)
    \/ ~Truthy(ci.description)

\* the "important missing fields" test
Incomplete(ci) ==
    \/ ~Truthy(ci.sector)
    \/ ~Truthy(ci.industry)
    \/ ~Truthy(ci.description)

\* if not company_info.get(key) and value is not None: company_info[key] = value
MergeField(secValue, polygonValue) ==
    IF ~Truthy(secValue) /\ polygonValue # None THEN polygonValue ELSE secValue

\* the merge loop over polygon_info.items()
MergeCompanyInfo(ci, pi) == [k \in CompanyKeys |-> MergeField(ci[k], pi[k])]

\* mutant of SecFailedResult: a failed SEC lookup ends the call with None
SecFailedResult_gaveUp(poly) == NoneResult

\* the else branch: SEC gave nothing, Polygon is the sole source
SecFailedResult(poly) == IF poly.exc THEN NoneResult ELSE poly.val

\* company_info[key] = value writes into the dict that get_company_info_sec
\* returned, which is the very object its cache entry holds
MutateCached(c, key, value) == [c EXCEPT ![key].result = value]

SecCompanyKey == CacheKey("get_company_info_sec", <<Ticker>>, "{}")
FallbackCompanyKey == CacheKey("get_company_info_with_fallback", <<Ticker>>, "{}")

\* no orchestrator call is in progress
CallerIdle == last.stage = "done"

\* if company_info and company_info.get('company_name')
SecUsable(ci) == ci # NoneResult /\ Truthy(ci.company_name)

\* the value the function returns once Polygon has been asked, and the cache
\* as the merge leaves it
AfterPolygon(ci, poly) ==
    IF SecUsable(ci)
    THEN LET merged == IF ~poly.exc /\ poly.val # NoneResult
                       THEN MergeCompanyInfo(ci, poly.val)
                       ELSE ci
         IN [ val |-> merged,
              cache |-> MutateCached(poly.cache, SecCompanyKey, merged) ]
    ELSE [ val |-> SecFailedResult(poly), cache |-> poly.cache ]

\* get_company_info_with_fallback(ticker) up to the point where it either
\* returns (cache hit, or complete SEC data) or turns to Polygon:
\* the wrapper's check, the SEC call, the missing-fields test
StartCompanyInfoWithFallback(secOut) ==
    /\ CallerIdle
    /\ LET hit == CacheHit(cache, FallbackCompanyKey, clock,
                           CacheTTL("get_company_info_with_fallback"))
           sec == DecoratedCall(cache, clock, "get_company_info_sec",
                                <<Ticker>>, "{}",
                                get_company_info_sec_body(secOut))
           ci == sec.val
           base == [ op |-> "get_company_info_with_fallback", stage |-> "done",
                     hit |-> FALSE, exc |-> FALSE, val |-> NoneResult,
                     sleeps |-> << >>, secVal |-> NoneResult, polyCalls |-> 0,
                     polyVal |-> NoneResult, polyFailed |-> FALSE ]
       IN IF hit
          THEN /\ cache' = cache
               /\ last' = [base EXCEPT !.hit = TRUE,
                                       !.val = cache[FallbackCompanyKey].result]
          ELSE IF sec.exc
          THEN /\ cache' = CachePut(sec.cache, FallbackCompanyKey, clock, NoneResult)
               /\ last' = [base EXCEPT !.sleeps = sec.sleeps]
          ELSE IF SecUsable(ci) /\ ~Incomplete(ci)
          THEN /\ cache' = CachePut(sec.cache, FallbackCompanyKey, clock, ci)
               /\ last' = [base EXCEPT !.val = ci, !.secVal = ci,
                                       !.sleeps = sec.sleeps]
          ELSE /\ cache' = sec.cache
               /\ last' = [base EXCEPT !.stage = "polygon", !.secVal = ci,
                                       !.sleeps = sec.sleeps]
    /\ UNCHANGED <<fetcher, reports, fred, table, clock, lock, pc, frame>>

\* the rest of the call: time.sleep(5), get_company_info(ticker), the merge
\* or the last-resort return, and the wrapper's store
PolygonCompanyInfoWithFallback(polyOut) ==
    /\ last.op = "get_company_info_with_fallback"
    /\ last.stage = "polygon"
    /\ LET poly == DecoratedCall(cache, clock, "get_company_info", <<Ticker>>,
                                 "{}", get_company_info_body(polyOut))
           fin == AfterPolygon(last.secVal, poly)
       IN /\ cache' = CachePut(fin.cache, FallbackCompanyKey, clock, fin.val)
          /\ last' = [last EXCEPT
                        !.stage = "done", !.val = fin.val,
                        !.sleeps = last.sleeps \o <<5>> \o poly.sleeps,
                        !.polyCalls = last.polyCalls + 1,
                        !.polyVal = IF poly.exc THEN NoneResult ELSE poly.val,
                        !.polyFailed = ~poly.hit /\
                            (polyOut.raise \/ polyOut.rec = NoneResult)]
    /\ UNCHANGED <<fetcher, reports, fred, table, clock, lock, pc, frame>>

\* a caller runs get_company_info_sec(ticker) to completion
CallCompanyInfoSec(secOut) ==
    /\ CallerIdle
    /\ LET r == DecoratedCall(cache, clock, "get_company_info_sec", <<Ticker>>,
                              "{}", get_company_info_sec_body(secOut))
       IN /\ cache' = r.cache
          /\ last' = [ op |-> "get_company_info_sec", stage |-> "done",
                       hit |-> r.hit, exc |-> r.exc, val |-> r.val,
                       sleeps |-> r.sleeps ]
    /\ UNCHANGED <<fetcher, reports, fred, table, clock, lock, pc, frame>>

NextCompany ==
    \/ Tick
    \/ \E secOut \in SecCompanyOutcomes : StartCompanyInfoWithFallback(secOut)
    \/ \E polyOut \in PolygonCompanyOutcomes :
          PolygonCompanyInfoWithFallback(polyOut)
    \/ \E secOut \in SecCompanyOutcomes : CallCompanyInfoSec(secOut)

SpecCompany == Init /\ [][NextCompany]_vars

---------------------------------------------------------------------------
(* Claims about get_company_info_with_fallback, checked under SpecCompany *)

\* a call of get_company_info_with_fallback that ran its body to the end
CompanyFallbackRan ==
    /\ last.op = "get_company_info_with_fallback"
    /\ last.stage = "done"
    /\ ~last.hit

\* C1: every field that is non-null in the record get_company_info_sec
\* returned has exactly that value in the record the fallback returns,
\* whatever Polygon supplied -- also when the SEC value is 0 or "".
C1_PrimaryWins ==
    (CompanyFallbackRan /\ last.secVal # NoneResult) =>
        \A k \in CompanyKeys :
            last.secVal[k] # None => last.val[k] = last.secVal[k]

\* the SEC result is absent or lacks one of sector, industry, description
SecNeedsPolygon(sv) ==
    IF sv = NoneResult THEN TRUE
    ELSE \/ sv.company_name \in {None, "S0", "P0"}
         \/ sv.sector \in {None, "S0", "P0"}
         \/ sv.industry \in {None, "S0", "P0"}
         \/ sv.description \in {None, "S0", "P0"}

\* C4: Polygon's get_company_info is called exactly when the SEC result is
\* absent or its sector, industry or description is empty, and then once;
\* with complete SEC data it is not called and the SEC record is returned.
C4_PolygonOnlyForGaps ==
    /\ last.op = "get_company_info_with_fallback" => last.polyCalls <= 1
    /\ CompanyFallbackRan =>
          IF SecNeedsPolygon(last.secVal)
          THEN last.polyCalls = 1
          ELSE last.polyCalls = 0 /\ last.val = last.secVal

\* C4 witness: SEC data with a company name but no industry made the call
\* turn to Polygon, once
C4_Witness ==
    /\ CompanyFallbackRan
    /\ last.secVal # NoneResult
    /\ last.secVal.sector = "S1" /\ last.secVal.description = "S1"
    /\ last.secVal.industry = None
    /\ last.polyCalls = 1

\* C5: when the SEC lookup gives nothing the call returns exactly what
\* get_company_info returns, None when the Polygon request failed too; no
\* exception leaves the call.
C5_SecFailed ==
    last.op = "get_company_info_with_fallback" =>
        /\ ~last.exc
        /\ (CompanyFallbackRan /\ last.secVal = NoneResult) =>
              /\ last.polyCalls = 1
              /\ last.val = last.polyVal
              /\ last.polyFailed => last.val = NoneResult

\* C5 witness: SEC gave nothing and the call returned Polygon's record
C5_Witness ==
    /\ CompanyFallbackRan
    /\ last.secVal = NoneResult
    /\ last.polyVal # NoneResult
    /\ last.val = last.polyVal

\* C27: a None result of a wrapped function is stored like any other result,
\* with the time of the store, and a call that finds that entry younger than
\* the ttl returns None without running the function
C27_FailureCached ==
    /\ [](\A t \in Threads :
            ( /\ pc[t] = "done"
              /\ Cached(frame[t].fn)
              /\ SawFresh(t)
              /\ frame[t].seen.result = None )
            => /\ frame[t].bodyCalls = 0
               /\ frame[t].returned = None)
    /\ [][ \A t \in Threads :
             ( /\ pc[t] = "cache_store"
               /\ pc'[t] # "cache_store"
               /\ frame[t].result = None )
             => /\ ThreadKey(t) \in DOMAIN cache'
                /\ cache'[ThreadKey(t)] = [time |-> clock, result |-> None]
          ]_vars

C27_Witness ==
    \E t, u \in Threads :
        /\ t # u
        /\ pc[t] = "done" /\ pc[u] = "done"
        /\ ThreadKey(t) = ThreadKey(u)
        /\ Cached(frame[t].fn)
        /\ frame[t].bodyCalls = 1 /\ frame[t].stores = 1
        /\ frame[t].result = None /\ ~frame[t].raised
        /\ SawFresh(u)
        /\ frame[u].seen.result = None
        /\ frame[u].bodyCalls = 0
        /\ frame[u].returned = None

\* C28: a function under rate_limit and request_cached has slept its full
\* delay, once, whenever its cache check runs, so a hit is also preceded by
\* the delay; a function under request_cached only never sleeps; a hit of
\* either kind runs no function body
C28_SleepBeforeCache ==
    \A t \in Threads :
        /\ (RateLimited(frame[t].fn) /\ Cached(frame[t].fn)
                /\ frame[t].checks >= 1)
            => /\ frame[t].sleeps = 1
               /\ frame[t].slept = RateLimitSeconds(frame[t].fn)
        /\ (~RateLimited(frame[t].fn) /\ Cached(frame[t].fn))
            => /\ frame[t].sleeps = 0
               /\ frame[t].slept = 0
        /\ (pc[t] = "done" /\ Cached(frame[t].fn) /\ SawFresh(t))
            => frame[t].bodyCalls = 0

C28_Witness ==
    \E t, u \in Threads :
        /\ pc[t] = "done" /\ pc[u] = "done"
        /\ frame[t].fn = "get_company_info"
        /\ SawFresh(t)
        /\ frame[t].slept = 3 /\ frame[t].bodyCalls = 0
        /\ frame[u].fn = "get_company_info_with_fallback"
        /\ SawFresh(u)
        /\ frame[u].sleeps = 0 /\ frame[u].bodyCalls = 0

\* C25: no operation removes a key from the request cache; an entry,
\* expired or not, stays as it is until a call that misses on its own key
\* overwrites it with the current time, and no call changes the entry of
\* another key
C25_CacheOnlyGrows ==
    [][ \A k \in DOMAIN cache :
          /\ k \in DOMAIN cache'
          /\ cache'[k] # cache[k] =>
                /\ cache'[k].time = clock
                /\ ~IsFresh(cache[k].time, clock, CacheTTL(k[1]))
      ]_vars

---------------------------------------------------------------------------
(* Financial ratios: get_financial_statements, get_financial_ratios_sec,   *)
(* get_financial_ratios, get_financial_ratios_with_fallback                *)
(* (services.py:167-221, 608-743)                                          *)

\* filing_data of one filing, as get_financial_statements builds it; the
\* fields get_financial_ratios_sec reads, and the form type
FilingRecords(formType) ==
    { [form_type |-> formType, reporting_date |-> d, url |-> "S1"] :
      d \in {None, "S1"} }

\* what sec_client.get_filings ends in for one form type: an exception, no
\* filing, or one filing (limit=1)
FilingOutcomes(formType) ==
    { [raise |-> TRUE, filings |-> << >>], [raise |-> FALSE, filings |-> << >>] }
    \cup { [raise |-> FALSE, filings |-> <<f>>] : f \in FilingRecords(formType) }

\* body of get_financial_statements: an exception gives []
get_financial_statements_body(out) ==
    [exc |-> FALSE, val |-> IF out.raise THEN << >> ELSE out.filings]

NoRatios ==
    [profit_margin |-> None, roe |-> None, roa |-> None, debt_to_equity |-> None]

\* the dict get_financial_ratios_sec returns for a filing (lines 691-701)
SecRatiosRecord(filing) ==
    [ date |-> filing.reporting_date, ratios |-> NoRatios,
      source |-> "SEC", url |-> filing.url ]

\* get_financial_ratios_sec, decorated, run to completion: the 10-K lookup,
\* the 10-Q lookup when that is empty, the placeholder record
get_financial_ratios_sec(c, now, kOut, qOut) ==
    LET fn == "get_financial_ratios_sec"
        key == CacheKey(fn, <<Ticker>>, "{}")
        hit == CacheHit(c, key, now, CacheTTL(fn))
        k == DecoratedCall(c, now, "get_financial_statements", <<Ticker>>,
                           "{'filing_type': '10-K', 'limit': 1}",
                           get_financial_statements_body(kOut))
        q == DecoratedCall(k.cache, now, "get_financial_statements", <<Ticker>>,
                           "{'filing_type': '10-Q', 'limit': 1}",
                           get_financial_statements_body(qOut))
        useQ == k.val = << >>
        filings == IF useQ THEN q.val ELSE k.val
        val == IF filings = << >> THEN NoneResult
               ELSE SecRatiosRecord(filings[1])
        c2 == IF useQ THEN q.cache ELSE k.cache
    IN IF hit
       THEN [ hit |-> TRUE, exc |-> FALSE, val |-> c[key].result, cache |-> c,
              sleeps |-> <<RateLimitSeconds(fn)>>, statementCalls |-> 0 ]
       ELSE [ hit |-> FALSE, exc |-> FALSE, val |-> val,
              cache |-> CachePut(c2, key, now, val),
              sleeps |-> <<RateLimitSeconds(fn)>> \o k.sleeps
                         \o (IF useQ THEN q.sleeps ELSE << >>),
              statementCalls |-> IF useQ THEN 2 ELSE 1 ]

\* the ratios get_financial_ratios computes from the latest quarter: each is
\* None when its denominator is zero or missing (lines 207-212)
PolygonRatiosRecords ==
    { [ date |-> "P1",
        ratios |-> [ profit_margin |-> IF revenue THEN "P1" ELSE None,
                     roe |-> IF equity THEN "P1" ELSE None,
                     roa |-> IF assets THEN "P1" ELSE None,
                     debt_to_equity |-> IF equity THEN "P1" ELSE None ] ] :
      revenue \in BOOLEAN, equity \in BOOLEAN, assets \in BOOLEAN }

\* what polygon_client.vx.list_stock_financials ends in: an exception, no
\* results, or financials
PolygonRatiosOutcomes ==
    { [raise |-> TRUE, rec |-> NoneResult],
      [raise |-> FALSE, rec |-> NoneResult] }
    \cup { [raise |-> FALSE, rec |-> r] : r \in PolygonRatiosRecords }

\* body of get_financial_ratios: every exception is caught and gives None
get_financial_ratios_body(out) ==
    [exc |-> FALSE, val |-> IF out.raise THEN NoneResult ELSE out.rec]

\* ratios and ratios['ratios'] and any(value is not None for value in ...)
HasRatioValue(r) ==
    /\ r # NoneResult
    /\ \E k \in DOMAIN r.ratios : r.ratios[k] # None

\* what the inner try returns after SEC proved incomplete: Polygon's result,
\* or on an exception out of get_financial_ratios the SEC data if any
RatiosAfterPolygon(ratios, poly) ==
    IF poly.exc THEN ratios ELSE poly.val

FallbackRatiosKey ==
    CacheKey("get_financial_ratios_with_fallback", <<Ticker>>, "{}")

\* get_financial_ratios_with_fallback(ticker) up to the point where it
\* either returns (cache hit, or SEC ratios with a value) or turns to
\* Polygon: the wrapper's check, the SEC call, the test of line 719
StartFinancialRatiosWithFallback(kOut, qOut) ==
    /\ CallerIdle
    /\ LET hit == CacheHit(cache, FallbackRatiosKey, clock,
                           CacheTTL("get_financial_ratios_with_fallback"))
           sec == get_financial_ratios_sec(cache, clock, kOut, qOut)
           base == [ op |-> "get_financial_ratios_with_fallback",
                     stage |-> "done", hit |-> FALSE, exc |-> FALSE,
                     val |-> NoneResult, sleeps |-> << >>,
                     secVal |-> NoneResult, polyCalls |-> 0,
                     polyVal |-> NoneResult, polyFailed |-> FALSE ]
       IN IF hit
          THEN /\ cache' = cache
               /\ last' = [base EXCEPT !.hit = TRUE,
                                       !.val = cache[FallbackRatiosKey].result]
          ELSE IF HasRatioValue(sec.val)
          THEN /\ cache' = CachePut(sec.cache, FallbackRatiosKey, clock, sec.val)
               /\ last' = [base EXCEPT !.val = sec.val, !.secVal = sec.val,
                                       !.sleeps = sec.sleeps]
          ELSE /\ cache' = sec.cache
               /\ last' = [base EXCEPT !.stage = "polygon", !.secVal = sec.val,
                                       !.sleeps = sec.sleeps]
    /\ UNCHANGED <<fetcher, reports, fred, table, clock, lock, pc, frame>>

\* the rest of the call: time.sleep(12), get_financial_ratios(ticker), the
\* return of lines 727-734, and the wrapper's store
PolygonFinancialRatiosWithFallback(polyOut) ==
    /\ last.op = "get_financial_ratios_with_fallback"
    /\ last.stage = "polygon"
    /\ LET poly == DecoratedCall(cache, clock, "get_financial_ratios",
                                 <<Ticker>>, "{}",
                                 get_financial_ratios_body(polyOut))
           val == RatiosAfterPolygon(last.secVal, poly)
       IN /\ cache' = CachePut(poly.cache, FallbackRatiosKey, clock, val)
          /\ last' = [last EXCEPT
                        !.stage = "done", !.val = val,
                        !.sleeps = last.sleeps \o <<12>> \o poly.sleeps,
                        !.polyCalls = last.polyCalls + 1,
                        !.polyVal = poly.val,
                        !.polyFailed = ~poly.hit /\
                            (polyOut.raise \/ polyOut.rec = NoneResult)]
    /\ UNCHANGED <<fetcher, reports, fred, table, clock, lock, pc, frame>>

NextRatios ==
    \/ Tick
    \/ \E kOut \in FilingOutcomes("10-K") : \E qOut \in FilingOutcomes("10-Q") :
          StartFinancialRatiosWithFallback(kOut, qOut)
    \/ \E polyOut \in PolygonRatiosOutcomes :
          PolygonFinancialRatiosWithFallback(polyOut)

SpecRatios == Init /\ [][NextRatios]_vars

\* a call of get_financial_ratios_with_fallback that ran its body
RatiosFallbackRan ==
    /\ last.op = "get_financial_ratios_with_fallback"
    /\ last.stage = "done"
    /\ ~last.hit

\* C6: when the SEC record has no ratio value and Polygon supplies ratios,
\* the returned record keeps the SEC value of every field that is non-empty
\* in the SEC record (date, source, url); Polygon fills only the empty ones.
C6_RatiosFieldMerge ==
    (RatiosFallbackRan /\ last.secVal # NoneResult
       /\ HasRatioValue(last.polyVal)) =>
        \A k \in {"date", "source", "url"} :
            last.secVal[k] # None =>
                (k \in DOMAIN last.val /\ last.val[k] = last.secVal[k])

\* C7: when the SEC provider returned a record and the Polygon request
\* failed, the call returns the SEC record; it returns None only when
\* neither provider produced a record.
C7_PartialSecKept ==
    RatiosFallbackRan =>
        /\ (last.secVal # NoneResult /\ last.polyFailed) =>
              last.val = last.secVal
        /\ last.val = NoneResult =>
              (last.secVal = NoneResult /\ last.polyVal = NoneResult)

---------------------------------------------------------------------------
(* Insider transactions: get_insider_transactions_sec,                     *)
(* get_insider_transactions, get_insider_transactions_with_fallback        *)
(* (services.py:307-346, 558-606, 805-817)                                 *)

\* the most filings / transactions one provider answer holds in the model
MaxTransactions == 2

\* the transaction get_insider_transactions_sec builds from a Form 4 filing:
\* the share figures are never filled in (lines 588-596)
SecTransaction(owner) ==
    [ insider_name |-> owner, position |-> "S1", transaction_type |-> "S1",
      transaction_date |-> "S1", shares |-> None, price_per_share |-> None,
      total_value |-> None ]

\* the transaction get_insider_transactions builds (lines 328-336)
PolygonTransaction(sharePrice) ==
    [ insider_name |-> "P1", position |-> "P1", transaction_type |-> "P1",
      transaction_date |-> "P1", shares |-> "P1",
      price_per_share |-> sharePrice,
      total_value |-> IF Truthy(sharePrice) THEN "P1" ELSE None ]

SeqsUpTo(S, n) == UNION { [1..m -> S] : m \in 1..n }

\* what sec_client.get_filings ends in: an exception, no filings, or the
\* owners of the Form 4 filings found
SecInsiderOutcomes ==
    { [raise |-> TRUE, owners |-> << >>], [raise |-> FALSE, owners |-> << >>] }
    \cup { [raise |-> FALSE, owners |-> o] :
           o \in SeqsUpTo({"S1", "Unknown"}, MaxTransactions) }

\* what polygon_client.vx.list_stock_insider_transactions ends in: an
\* exception (or the method missing), no results, or the share prices of
\* the transactions found
PolygonInsiderOutcomes ==
    { [raise |-> TRUE, prices |-> << >>], [raise |-> FALSE, prices |-> << >>] }
    \cup { [raise |-> FALSE, prices |-> q] :
           q \in SeqsUpTo({None, "P1"}, MaxTransactions) }

\* body of get_insider_transactions_sec: an exception gives []
get_insider_transactions_sec_body(out) ==
    [ exc |-> FALSE,
      val |-> IF out.raise THEN << >>
              ELSE [i \in 1..Len(out.owners) |-> SecTransaction(out.owners[i])] ]

\* body of get_insider_transactions: an exception gives []
get_insider_transactions_body(out) ==
    [ exc |-> FALSE,
      val |-> IF out.raise THEN << >>
              ELSE [i \in 1..Len(out.prices) |-> PolygonTransaction(out.prices[i])] ]

\* mutant of SecInsiderMeaningful: any non-empty SEC list is taken
SecInsiderMeaningful_nonEmpty(transactions) == Len(transactions) > 0

\* transactions and len(transactions) > 0 and
\* transactions[0].get('shares') is not None
SecInsiderMeaningful(transactions) ==
    /\ transactions # << >>
    /\ Len(transactions) > 0
    /\ transactions[1].shares # None

\* get_insider_transactions_with_fallback(ticker) run to completion; it has
\* no decorator and no handler of its own
get_insider_transactions_with_fallback(c, now, secOut, polyOut) ==
    LET sec == DecoratedCall(c, now, "get_insider_transactions_sec",
                             <<Ticker, 10>>, "{}",
                             get_insider_transactions_sec_body(secOut))
        poly == DecoratedCall(sec.cache, now, "get_insider_transactions",
                              <<Ticker, 10>>, "{}",
                              get_insider_transactions_body(polyOut))
    IN IF sec.exc
       THEN [ exc |-> TRUE, val |-> << >>, cache |-> sec.cache,
              sleeps |-> sec.sleeps, secVal |-> << >>, polyCalls |-> 0,
              polyVal |-> << >>, secFailed |-> TRUE, polyFailed |-> FALSE ]
       ELSE IF SecInsiderMeaningful(sec.val)
       THEN [ exc |-> FALSE, val |-> sec.val, cache |-> sec.cache,
              sleeps |-> sec.sleeps, secVal |-> sec.val, polyCalls |-> 0,
              polyVal |-> << >>, secFailed |-> FALSE, polyFailed |-> FALSE ]
       ELSE [ exc |-> poly.exc, val |-> IF poly.exc THEN << >> ELSE poly.val,
              cache |-> poly.cache, sleeps |-> sec.sleeps \o poly.sleeps,
              secVal |-> sec.val, polyCalls |-> 1,
              polyVal |-> IF poly.exc THEN << >> ELSE poly.val,
              secFailed |-> ~sec.hit /\ secOut.raise,
              polyFailed |-> ~poly.hit /\ polyOut.raise ]

\* a caller runs get_insider_transactions_with_fallback(ticker) to completion
CallInsiderTransactionsWithFallback(secOut, polyOut) ==
    /\ CallerIdle
    /\ LET r == get_insider_transactions_with_fallback(cache, clock, secOut,
                                                       polyOut)
       IN /\ cache' = r.cache
          /\ last' = [ op |-> "get_insider_transactions_with_fallback",
                       stage |-> "done", exc |-> r.exc, val |-> r.val,
                       sleeps |-> r.sleeps, secVal |-> r.secVal,
                       polyCalls |-> r.polyCalls, polyVal |-> r.polyVal,
                       secFailed |-> r.secFailed, polyFailed |-> r.polyFailed ]
    /\ UNCHANGED <<fetcher, reports, fred, table, clock, lock, pc, frame>>

NextInsider ==
    \/ Tick
    \/ \E secOut \in SecInsiderOutcomes : \E polyOut \in PolygonInsiderOutcomes :
          CallInsiderTransactionsWithFallback(secOut, polyOut)

SpecInsider == Init /\ [][NextInsider]_vars

\* C8: get_insider_transactions_with_fallback returns the SEC list, without
\* calling Polygon, exactly when that list is non-empty and its first entry
\* has a non-null shares value; otherwise it returns exactly what
\* get_insider_transactions returns.  When both providers fail the result
\* is the empty list, and no exception leaves the call.
C8_InsiderFallback ==
    last.op = "get_insider_transactions_with_fallback" =>
        /\ ~last.exc
        /\ IF Len(last.secVal) > 0 /\ last.secVal[1].shares # None
           THEN last.val = last.secVal /\ last.polyCalls = 0
           ELSE last.val = last.polyVal /\ last.polyCalls = 1
        /\ (last.secFailed /\ last.polyFailed) => last.val = << >>

\* C8 witness: a non-empty SEC list without share figures was discarded for
\* Polygon's non-empty list
C8_Witness ==
    /\ last.op = "get_insider_transactions_with_fallback"
    /\ Len(last.secVal) > 0
    /\ Len(last.polyVal) > 0
    /\ last.val = last.polyVal
    /\ last.val # last.secVal
    /\ last.polyCalls = 1

---------------------------------------------------------------------------
(* calculate_investment_score (services.py:1107-1264).  Numbers are exact  *)
(* fixed-point integers: ratios in 1/10000, debt_to_equity and prices in   *)
(* 1/100, scores in 1/100 of a point, the overall score in 1/10000 of a    *)
(* point.  The four fetches that open the function are the orchestrators   *)
(* modelled above; their results are the inputs here.                      *)

\* a number, Python's None, or a float not-a-number
Num(v) == [kind |-> "num", v |-> v]
NoNum == [kind |-> "none", v |-> 0]
NaN == [kind |-> "nan", v |-> 0]

Min(a, b) == IF a < b THEN a ELSE b
Max(a, b) == IF a > b THEN a ELSE b

\* mutant of Clamp100: the floor at 0 is dropped
Clamp100_noFloor(x) == Min(100 * 100, x)

\* min(100, max(0, x)) on scores in 1/100 of a point
Clamp100(x) == Min(100 * 100, Max(0, x))

\* valuation_score, lines 1124-1131; profit_margin * 100 * 5
ValuationScore(ratios) ==
    IF ratios.profit_margin.kind = "num"
    THEN Clamp100(ratios.profit_margin.v * 5)
    ELSE 0

\* comparisons with a not-a-number are all false
Lt(a, b) == a.kind = "num" /\ b.kind = "num" /\ a.v < b.v

\* bool(x) of a float: false only for zero
TruthyNum(x) == x.kind = "nan" \/ (x.kind = "num" /\ x.v # 0)

\* technical_score, lines 1134-1159, in whole points before the scaling
TechnicalScore(ti) ==
    LET rsiPart == IF ti.rsi_14.kind = "none" THEN 0
                   ELSE IF Lt(ti.rsi_14, Num(30)) THEN 80
                   ELSE IF Lt(Num(70), ti.rsi_14) THEN 20
                   ELSE 50
        smaPart == IF TruthyNum(ti.sma_20) /\ TruthyNum(ti.sma_50)
                      /\ TruthyNum(ti.close)
                   THEN IF Lt(ti.sma_20, ti.close) /\ Lt(ti.sma_50, ti.sma_20)
                        THEN 20
                        ELSE IF Lt(ti.close, ti.sma_20) /\ Lt(ti.sma_20, ti.sma_50)
                        THEN -20
                        ELSE 0
                   ELSE 0
    IN Clamp100(100 * (rsiPart + smaPart))

\* financial_health_score, lines 1165-1185
FinancialHealthScore(ratios) ==
    LET roePart == IF ratios.roe.kind = "num"
                   THEN Min(50 * 100, Max(0, ratios.roe.v))
                   ELSE 0
        d == ratios.debt_to_equity
        debtPart == IF d.kind # "num" THEN 0
                    ELSE IF d.v < 50 THEN 50
                    ELSE IF d.v < 100 THEN 30
                    ELSE IF d.v < 200 THEN 15
                    ELSE 0
    IN Clamp100(roePart + 100 * debtPart)

\* mutant of OverallScore: the five scores weigh the same
OverallScore_equalWeights(valuation, growth, health, technical, sentiment) ==
    (valuation + growth + health + technical + sentiment) * 20

\* overall_score, lines 1191-1197, in 1/10000 of a point
OverallScore(valuation, growth, health, technical, sentiment) ==
    valuation * 30 + growth * 20 + health * 25 + technical * 15 + sentiment * 10

\* mutant of Recommendation: the two upper thresholds are exclusive
Recommendation_exclusive(overall) ==
    IF overall > 80 * 10000 THEN "strong_buy"
    ELSE IF overall > 60 * 10000 THEN "buy"
    ELSE IF overall <= 20 * 10000 THEN "strong_sell"
    ELSE IF overall <= 40 * 10000 THEN "sell"
    ELSE "hold"

\* recommendation, lines 1200-1208
Recommendation(overall) ==
    IF overall >= 80 * 10000 THEN "strong_buy"
    ELSE IF overall >= 60 * 10000 THEN "buy"
    ELSE IF overall <= 20 * 10000 THEN "strong_sell"
    ELSE IF overall <= 40 * 10000 THEN "sell"
    ELSE "hold"

\* mutant of calculate_investment_score: missing technical indicators or
\* financial ratios leave their scores at 0 instead of ending the call
calculate_investment_score_partial(companyInfo, priceData, technical, financial) ==
    IF companyInfo = NoneResult \/ priceData = << >>
    THEN NoneResult
    ELSE LET valuation == IF financial = NoneResult THEN 0
                          ELSE ValuationScore(financial.ratios)
             tech == IF technical = NoneResult THEN 0
                     ELSE TechnicalScore(technical)
             growth == 50 * 100
             health == IF financial = NoneResult THEN 0
                       ELSE FinancialHealthScore(financial.ratios)
             sentiment == 50 * 100
             overall == OverallScore(valuation, growth, health, tech, sentiment)
         IN [ company_name |-> companyInfo.company_name,
              valuation_score |-> valuation,
              growth_score |-> growth,
              financial_health_score |-> health,
              technical_score |-> tech,
              sentiment_score |-> sentiment,
              overall_score |-> overall,
              recommendation |-> Recommendation(overall) ]

\* the function from its four fetched values to its result
calculate_investment_score(companyInfo, priceData, technical, financial) ==
    IF \/ companyInfo = NoneResult
       \/ priceData = << >>
       \/ technical = NoneResult
       \/ financial = NoneResult
    THEN NoneResult
    ELSE LET valuation == ValuationScore(financial.ratios)
             tech == TechnicalScore(technical)
             growth == 50 * 100
             health == FinancialHealthScore(financial.ratios)
             sentiment == 50 * 100
             overall == OverallScore(valuation, growth, health, tech, sentiment)
         IN [ company_name |-> companyInfo.company_name,
              valuation_score |-> valuation,
              growth_score |-> growth,
              financial_health_score |-> health,
              technical_score |-> tech,
              sentiment_score |-> sentiment,
              overall_score |-> overall,
              recommendation |-> Recommendation(overall) ]

\* inputs of the model: fetched values the function is run on
ScoreCompanyInfos == {NoneResult, [company_name |-> "S1"]}
ScorePriceData == {<< >>, <<"bars">>}

ProfitMargins == {NoNum, Num(-1000), Num(0), Num(1000), Num(1666), Num(2000)}
Roes == {Num(-500), Num(2000), Num(3000), Num(6000)}
DebtToEquities == {Num(30), Num(70), Num(150), Num(300)}

\* roe and debt_to_equity are both divided by total_equity (lines 209, 211):
\* both are None or both are numbers
EquityRatios ==
    {<<NoNum, NoNum>>} \cup (Roes \X DebtToEquities)

\* what get_financial_ratios_with_fallback hands over: None or the record
\* of get_financial_ratios (lines 207-217)
ScoreFinancials ==
    {NoneResult} \cup
    { [ratios |-> [profit_margin |-> m, roe |-> e[1], roa |-> NoNum,
                   debt_to_equity |-> e[2]]] :
      m \in ProfitMargins, e \in EquityRatios }

\* the latest row of get_technical_indicators; a window longer than the
\* history leaves a not-a-number
ScoreTechnicals ==
    {NoneResult} \cup
    { [rsi_14 |-> r, sma_20 |-> t[1], sma_50 |-> t[2], close |-> t[3]] :
      r \in {NaN, Num(25), Num(30), Num(50), Num(70), Num(75)},
      t \in { <<Num(10500), Num(10000), Num(11000)>>,
              <<Num(10500), Num(11000), Num(10000)>>,
              <<Num(10000), Num(10000), Num(10000)>>,
              <<Num(10500), NaN, Num(11000)>>,
              <<NaN, NaN, Num(11000)>> } }

\* a caller has entered calculate_investment_score(ticker) and the four
\* fetches of lines 1113-1116 have returned
InitScore ==
    /\ clock = 0
    /\ table = {}
    /\ reports = NoReports
    /\ fetcher = NoFetcher
    /\ fred = FredUp
    /\ cache = << >>
    /\ lock = "free"
    /\ pc = [t \in Threads |-> "idle"]
    /\ frame = [t \in Threads |-> NewFrame("none", None)]
    /\ \E companyInfo \in ScoreCompanyInfos : \E priceData \in ScorePriceData :
       \E technical \in ScoreTechnicals : \E financial \in ScoreFinancials :
           last = [ op |-> "calculate_investment_score", stage |-> "fetched",
                    company_info |-> companyInfo, price_data |-> priceData,
                    technical_indicators |-> technical,
                    financial_ratios |-> financial,
                    val |-> NoneResult ]

\* the rest of the function, lines 1118-1264, runs to its return
CalculateInvestmentScore ==
    /\ last.op = "calculate_investment_score"
    /\ last.stage = "fetched"
    /\ last' = [ last EXCEPT
                 !.stage = "done",
                 !.val = calculate_investment_score(last.company_info,
                             last.price_data, last.technical_indicators,
                             last.financial_ratios) ]
    /\ UNCHANGED <<fetcher, reports, fred, table, clock, cache, lock, pc, frame>>

NextScore == CalculateInvestmentScore

SpecScore == InitScore /\ [][NextScore]_vars

\* a call of calculate_investment_score that returned a record
ScoreReturned ==
    /\ last.op = "calculate_investment_score"
    /\ last.stage = "done"
    /\ last.val # NoneResult

\* C10: the recommendation is decided by overall_score alone: strong_buy iff
\* it is at least 80, buy iff in [60, 80), strong_sell iff at most 20, sell
\* iff in (20, 40], hold iff in (40, 60); so 80.0 is strong_buy, 79.99 is buy
\* and 40.0 is sell.
C10_Recommendation ==
    ScoreReturned =>
        LET o == last.val.overall_score
            r == last.val.recommendation
        IN /\ (r = "strong_buy") <=> (o >= 800000)
           /\ (r = "buy") <=> (600000 <= o /\ o < 800000)
           /\ (r = "strong_sell") <=> (o <= 200000)
           /\ (r = "sell") <=> (200000 < o /\ o <= 400000)
           /\ (r = "hold") <=> (400000 < o /\ o < 600000)
           /\ r \in {"strong_buy", "buy", "hold", "sell", "strong_sell"}

\* C10 witness: an overall score of exactly 80.0 was rated strong_buy
C10_Witness ==
    /\ ScoreReturned
    /\ last.val.overall_score = 800000
    /\ last.val.recommendation = "strong_buy"

\* C11: in every record calculate_investment_score returns, each of the five
\* sub-scores lies in [0, 100], whatever the inputs were: negative profit
\* margin, negative ROE, ratios that are None, RSI or SMA without a value.
C11_SubScoresInRange ==
    ScoreReturned =>
        \A k \in {"valuation_score", "growth_score", "financial_health_score",
                  "technical_score", "sentiment_score"} :
            0 <= last.val[k] /\ last.val[k] <= 100 * 100

\* C11 witness: a record was returned for a negative profit margin, a
\* negative ROE and an RSI without a value
C11_Witness ==
    /\ ScoreReturned
    /\ last.financial_ratios.ratios.profit_margin.kind = "num"
    /\ last.financial_ratios.ratios.profit_margin.v < 0
    /\ last.financial_ratios.ratios.roe.kind = "num"
    /\ last.financial_ratios.ratios.roe.v < 0
    /\ last.technical_indicators.rsi_14.kind = "nan"
    /\ last.val.valuation_score = 0

\* a call of calculate_investment_score that has returned
ScoreDone ==
    /\ last.op = "calculate_investment_score"
    /\ last.stage = "done"

\* one of the four fetched values is None or empty
ScoreInputMissing ==
    \/ last.company_info = NoneResult
    \/ last.price_data = << >>
    \/ last.technical_indicators = NoneResult
    \/ last.financial_ratios = NoneResult

ScoreKeys ==
    { "company_name", "valuation_score", "growth_score",
      "financial_health_score", "technical_score", "sentiment_score",
      "overall_score", "recommendation" }

\* C23: calculate_investment_score is all-or-nothing: with any of company
\* info, price data, technical indicators or financial ratios missing it
\* returns None, so no sub-score; with all four it returns a record with
\* the five sub-scores, the overall score and one of the five
\* recommendations
C23_AllOrNothing ==
    ScoreDone =>
        /\ ScoreInputMissing => last.val = NoneResult
        /\ ~ScoreInputMissing =>
               /\ last.val # NoneResult
               /\ DOMAIN last.val = ScoreKeys
               /\ last.val.recommendation \in
                      {"strong_buy", "buy", "hold", "sell", "strong_sell"}

\* C23 witness: only the technical indicators were missing and the call
\* returned None
C23_Witness ==
    /\ ScoreDone
    /\ last.company_info # NoneResult
    /\ last.price_data # << >>
    /\ last.financial_ratios # NoneResult
    /\ last.technical_indicators = NoneResult
    /\ last.val = NoneResult

\* C29: in every record calculate_investment_score returns, overall_score is
\* 0.30 valuation + 0.20 growth + 0.25 financial health + 0.15 technical
\* + 0.10 sentiment with growth = sentiment = 50, and so lies in [15, 85]
C29_WeightedSum ==
    ScoreReturned =>
        /\ last.val.growth_score = 50 * 100
        /\ last.val.sentiment_score = 50 * 100
        /\ last.val.overall_score =
               30 * last.val.valuation_score + 20 * last.val.growth_score
               + 25 * last.val.financial_health_score
               + 15 * last.val.technical_score
               + 10 * last.val.sentiment_score
        /\ 15 * 10000 <= last.val.overall_score
        /\ last.val.overall_score <= 85 * 10000

\* C29 witness: the three computed sub-scores are 0 and the overall score
\* is 15
C29_Witness ==
    /\ ScoreReturned
    /\ last.val.valuation_score = 0
    /\ last.val.financial_health_score = 0
    /\ last.val.technical_score = 0
    /\ last.val.overall_score = 15 * 10000

---------------------------------------------------------------------------
(* get_technical_indicators (services.py:223-305).  Prices are integers    *)
(* (cents); every computed value is an exact quotient of integers, so that *)
(* "equals the constant" and "is exactly zero" mean what they say.         *)

\* window of the RSI: the default of the parameter `window`, line 225
RsiWindow == 14
\* windows of the three moving averages, lines 244-246
Sma20Window == 20
Sma50Window == 50
Sma200Window == 200

\* the longest price series of the model
MaxSeriesLen == 201
\* the most rows the index series holds in the model
MaxIndexLen == 3

\* a float: the quotient n / d, or not-a-number
Ratio(n, d) == [kind |-> "num", n |-> n, d |-> d]
NotANumber == [kind |-> "nan", n |-> 0, d |-> 1]

\* x is a number equal to the integer c
RatioEquals(x, c) == x.kind = "num" /\ x.n = c * x.d

RECURSIVE SumRows(_, _, _)
\* f[lo] + ... + f[hi], summed by halves
SumRows(f, lo, hi) ==
    IF lo > hi THEN 0
    ELSE IF lo = hi THEN f[lo]
    ELSE LET mid == (lo + hi) \div 2
         IN SumRows(f, lo, mid) + SumRows(f, mid + 1, hi)

\* the column df['close']
CloseColumn(priceData) == [i \in 1..Len(priceData) |-> priceData[i].close]

\* mutant of RollingMean: the newest row is left out of the sum
RollingMean_withoutLast(column, w) ==
    LET n == Len(column)
    IN IF n < w THEN NotANumber
       ELSE Ratio(SumRows(column, n - w + 1, n - 1), w)

\* mutant of RollingMean: a window longer than the history gives 0
RollingMean_zeroFill(column, w) ==
    LET n == Len(column)
    IN IF n < w THEN Ratio(0, 1) ELSE Ratio(SumRows(column, n - w + 1, n), w)

\* column.rolling(window=w).mean() at the last row: not-a-number until w
\* rows exist
RollingMean(column, w) ==
    LET n == Len(column)
    IN IF n < w THEN NotANumber ELSE Ratio(SumRows(column, n - w + 1, n), w)

\* delta.where(delta > 0, 0): the first row's difference is not-a-number,
\* fails the test and becomes 0 like every non-positive difference
GainColumn(column) ==
    [i \in 1..Len(column) |->
        IF i > 1 /\ column[i] - column[i - 1] > 0
        THEN column[i] - column[i - 1] ELSE 0]

\* -delta.where(delta < 0, 0)
LossColumn(column) ==
    [i \in 1..Len(column) |->
        IF i > 1 /\ column[i] - column[i - 1] < 0
        THEN column[i - 1] - column[i] ELSE 0]

\* mutant of RsiOf: a zero average loss gives not-a-number
RsiOf_nanOnZeroLoss(gain, loss) ==
    IF gain.kind # "num" \/ loss.kind # "num" THEN NotANumber
    ELSE IF loss.n = 0 THEN NotANumber
    ELSE Ratio(100 * gain.n, gain.n + loss.n)

\* rs = gain / loss; 100 - (100 / (1 + rs)), on two rolling means of the
\* same window: x / 0 is infinite for x > 0 and gives 100 - 0, 0 / 0 is
\* not-a-number, otherwise 100 - 100 / (1 + G/L) = 100 G / (G + L)
RsiOf(gain, loss) ==
    IF gain.kind # "num" \/ loss.kind # "num" THEN NotANumber
    ELSE IF loss.n = 0
         THEN IF gain.n = 0 THEN NotANumber ELSE Ratio(100, 1)
    ELSE Ratio(100 * gain.n, gain.n + loss.n)

\* df['rsi_14'] at the last row, lines 249-253
Rsi14(column) ==
    RsiOf(RollingMean(GainColumn(column), RsiWindow),
          RollingMean(LossColumn(column), RsiWindow))

RECURSIVE SumFn(_)
\* the sum of the values of a function with a finite domain
SumFn(f) ==
    IF DOMAIN f = {} THEN 0
    ELSE LET x == CHOOSE x \in DOMAIN f : TRUE
         IN f[x] + SumFn([y \in DOMAIN f \ {x} |-> f[y]])

RECURSIVE ProdFn(_)
\* the product of the values of a function with a finite domain
ProdFn(f) ==
    IF DOMAIN f = {} THEN 1
    ELSE LET x == CHOOSE x \in DOMAIN f : TRUE
         IN f[x] * ProdFn([y \in DOMAIN f \ {x} |-> f[y]])

\* beta: None, not-a-number, or the quotient covariance / market_variance,
\* kept as its two operands, each times the factor that makes it an integer
NoBeta == [kind |-> "none", covNum |-> 0, varNum |-> 0]
NaNBeta == [kind |-> "nan", covNum |-> 0, varNum |-> 0]

\* pd.merge(..., on='date'): the (stock row, index row) pairs of equal date
MergedRows(priceData, spyData) ==
    { p \in (1..Len(priceData)) \X (1..Len(spyData)) :
        priceData[p[1]].date = spyData[p[2]].date }

\* k * sum(x * y) - sum(x) * sum(y) over the rows in rows: the sample
\* covariance of x and y times k (k - 1)
CoMoment(rows, x, y) ==
    Cardinality(rows) * SumFn([p \in rows |-> x[p] * y[p]])
        - SumFn([p \in rows |-> x[p]]) * SumFn([p \in rows |-> y[p]])

\* pct_change() of a close column on the rows in rows, each return times
\* the product of the previous closes of all those rows; k picks the row
\* of the column in a merged pair
ScaledReturns(rows, column, k) ==
    LET scale == ProdFn([p \in rows |-> column[p[k] - 1]])
    IN [p \in rows |->
           (column[p[k]] - column[p[k] - 1]) * (scale \div column[p[k] - 1])]

\* mutant of VarianceUsable: a not-a-number variance is not divided by
VarianceUsable_nanIsFalse(varKind, varNum) == varKind = "num" /\ varNum # 0

\* `if market_variance`: a float is false only when it is zero, so a
\* not-a-number variance passes
VarianceUsable(varKind, varNum) == varKind = "nan" \/ varNum # 0

\* lines 269-290: the beta of the stock against the index
BetaOf(priceData, spyData) ==
    IF spyData = << >>
    THEN NoBeta   \* spy_df['close'] raises on the empty frame, lines 281, 288
    ELSE
    LET merged == MergedRows(priceData, spyData)
        \* the first row of a column has no return
        marketRows == { p \in merged : p[2] >= 2 }
        pairRows == { p \in marketRows : p[1] >= 2 }
        stock == CloseColumn(priceData)
        market == CloseColumn(spyData)
        \* Series.var() and Series.cov() need two values
        varKind == IF Cardinality(marketRows) < 2 THEN "nan" ELSE "num"
        covKind == IF Cardinality(pairRows) < 2 THEN "nan" ELSE "num"
        mv == ScaledReturns(marketRows, market, 2)
        varNum == IF varKind = "num" THEN CoMoment(marketRows, mv, mv) ELSE 0
        covNum == IF covKind = "num"
                  THEN CoMoment(pairRows, ScaledReturns(pairRows, stock, 1),
                                ScaledReturns(pairRows, market, 2))
                  ELSE 0
    IN IF ~VarianceUsable(varKind, varNum) THEN NoBeta
       ELSE IF varKind = "nan" \/ covKind = "nan" THEN NaNBeta
       ELSE [kind |-> "num", covNum |-> covNum, varNum |-> varNum]

\* the function body on the two fetched series: None for no price data,
\* else the latest row with its indicators (lines 237-301)
get_technical_indicators(priceData, spyData) ==
    IF priceData = << >>
    THEN NoneResult
    ELSE LET column == CloseColumn(priceData)
         IN [ date |-> priceData[Len(priceData)].date,
              close |-> column[Len(column)],
              sma_20 |-> RollingMean(column, Sma20Window),
              sma_50 |-> RollingMean(column, Sma50Window),
              sma_200 |-> RollingMean(column, Sma200Window),
              rsi_14 |-> Rsi14(column),
              bollinger_middle |-> RollingMean(column, Sma20Window),
              beta |-> BetaOf(priceData, spyData) ]

\* body of get_stock_price_data (lines 141-165): the bars fetched, or [] on
\* any exception
get_stock_price_data_body(out) == IF out.raise THEN << >> ELSE out.rows

\* price series of the model, by shape: row i of n rows around the price c
SeriesShapes == {"flat", "up", "down", "zigzag", "dip_in", "dip_out"}

\* "dip_in" rises except for one fall that is the oldest difference inside
\* the RSI window of the last row, "dip_out" has that fall one row earlier
ShapeClose(shape, n, c, i) ==
    CASE shape = "flat" -> c
      [] shape = "up" -> c + i
      [] shape = "down" -> c + n - i
      [] shape = "zigzag" -> c + (i % 2)
      [] shape = "dip_in" ->
            IF i < n - RsiWindow + 1 THEN c + i + 2 ELSE c + i
      [] shape = "dip_out" ->
            IF i < n - RsiWindow THEN c + i + 2 ELSE c + i

\* lengths around each window
SeriesLengths ==
    (0 .. Sma20Window + 2) \cup (Sma50Window - 2 .. Sma50Window + 2)
        \cup (Sma200Window - 2 .. MaxSeriesLen)

\* the stock's bars: row i is dated day i
PriceSeries ==
    { [i \in 1..n |-> [date |-> i, close |-> ShapeClose(shape, n, c, i)]] :
      shape \in SeriesShapes, n \in SeriesLengths, c \in {10, 25} }

PriceOutcomes ==
    { [raise |-> TRUE, rows |-> << >>] }
    \cup { [raise |-> FALSE, rows |-> r] : r \in PriceSeries }

\* the index's bars: they start on the stock's first day, a day later, or
\* on days the stock has no bar for
SpySeries ==
    { [j \in 1..Len(q) |-> [date |-> offset + j, close |-> q[j]]] :
      q \in SeqsUpTo({10, 11}, MaxIndexLen),
      offset \in {0, 1, MaxSeriesLen + 10} }

SpyOutcomes ==
    { [raise |-> TRUE, rows |-> << >>], [raise |-> FALSE, rows |-> << >>] }
    \cup { [raise |-> FALSE, rows |-> r] : r \in SpySeries }

\* a caller has entered get_technical_indicators(ticker); the provider's
\* answers to the two price requests are fixed
InitTechnical ==
    /\ clock = 0
    /\ table = {}
    /\ reports = NoReports
    /\ fetcher = NoFetcher
    /\ fred = FredUp
    /\ cache = << >>
    /\ lock = "free"
    /\ pc = [t \in Threads |-> "idle"]
    /\ frame = [t \in Threads |-> NewFrame("none", None)]
    /\ \E priceOut \in PriceOutcomes : \E spyOut \in SpyOutcomes :
           last = [ op |-> "get_technical_indicators", stage |-> "called",
                    price_data |-> get_stock_price_data_body(priceOut),
                    spy_data |-> get_stock_price_data_body(spyOut),
                    priceFailed |-> priceOut.raise,
                    spyFailed |-> spyOut.raise,
                    exc |-> FALSE,
                    val |-> NoneResult ]

\* the function runs to its return
GetTechnicalIndicators ==
    /\ last.op = "get_technical_indicators"
    /\ last.stage = "called"
    /\ last' = [ last EXCEPT
                 !.stage = "done",
                 !.val = get_technical_indicators(last.price_data,
                                                  last.spy_data) ]
    /\ UNCHANGED <<fetcher, reports, fred, table, clock, cache, lock, pc, frame>>

NextTechnical == GetTechnicalIndicators

SpecTechnical == InitTechnical /\ [][NextTechnical]_vars

\* a call of get_technical_indicators that has returned
TechnicalReturned ==
    /\ last.op = "get_technical_indicators"
    /\ last.stage = "done"

\* a float without a value: pandas' missing value
IsNull(x) == x.kind \in {"nan", "none"}

---------------------------------------------------------------------------
(* Claims about get_technical_indicators, checked under SpecTechnical *)

\* a call that returned the latest row
TechnicalRow == TechnicalReturned /\ last.val # NoneResult

\* C12: rsi_14 of the latest row is null whenever fewer than 14 price points
\* precede that row, that is whenever the series has at most 14 closes.
C12_RsiNullUntil14Prior ==
    (TechnicalRow /\ Len(last.price_data) <= RsiWindow) =>
        IsNull(last.val.rsi_14)

\* the trailing-window averages the RSI is computed from
WindowGain == RollingMean(GainColumn(CloseColumn(last.price_data)), RsiWindow)
WindowLoss == RollingMean(LossColumn(CloseColumn(last.price_data)), RsiWindow)

\* C13: whenever the average loss over the trailing 14-period window is
\* exactly zero and the average gain is positive, rsi_14 equals 100.
C13_RsiHundredOnZeroLoss ==
    (TechnicalRow /\ WindowLoss.kind = "num" /\ WindowLoss.n = 0
       /\ WindowGain.kind = "num" /\ WindowGain.n > 0) =>
        RatioEquals(last.val.rsi_14, 100)

\* C13 witness: the window holds gains only, although the series fell just
\* before the window, and rsi_14 is 100
C13_Witness ==
    /\ TechnicalRow
    /\ Len(last.price_data) > RsiWindow + 1
    /\ \E i \in 2..Len(last.price_data) :
          last.price_data[i].close < last.price_data[i - 1].close
    /\ WindowLoss.kind = "num" /\ WindowLoss.n = 0
    /\ WindowGain.kind = "num" /\ WindowGain.n > 0
    /\ RatioEquals(last.val.rsi_14, 100)

\* the series has at least 200 rows and one close c on every row
ConstantSeries(c) ==
    /\ Len(last.price_data) >= Sma200Window
    /\ \A i \in 1..Len(last.price_data) : last.price_data[i].close = c

\* C14: for a price series of at least 200 rows with the same close c on
\* every row, sma_20, sma_50 and sma_200 of the latest row all equal c.
C14_SmaOfConstant ==
    TechnicalRow =>
        \A c \in {last.val.close} :
            ConstantSeries(c) =>
                /\ RatioEquals(last.val.sma_20, c)
                /\ RatioEquals(last.val.sma_50, c)
                /\ RatioEquals(last.val.sma_200, c)

\* C14 witness: a constant series of more than 200 rows gave sma_200 = c
C14_Witness ==
    /\ TechnicalRow
    /\ Len(last.price_data) > Sma200Window
    /\ ConstantSeries(last.val.close)
    /\ RatioEquals(last.val.sma_200, last.val.close)
    /\ RatioEquals(last.val.sma_20, last.val.close)

\* the index answered, but no index bar shares a date with a stock bar
NoCommonDates ==
    /\ last.spy_data # << >>
    /\ MergedRows(last.price_data, last.spy_data) = {}

\* the index's returns on the common dates exist and are all the same, so
\* their variance is zero
ZeroIndexVariance ==
    LET rows == { p \in MergedRows(last.price_data, last.spy_data) : p[2] >= 2 }
    IN /\ Cardinality(rows) >= 2
       /\ \A p, q \in rows :
             last.spy_data[p[2]].close * last.spy_data[q[2] - 1].close
                 = last.spy_data[q[2]].close * last.spy_data[p[2] - 1].close

\* C15: beta is None whenever the index's return variance over the common
\* dates is zero, whenever the two series share no date, and whenever the
\* index fetch fails; no division is performed in these cases.
C15_BetaNone ==
    (TechnicalRow /\ (last.spy_data = << >> \/ NoCommonDates
                        \/ ZeroIndexVariance)) =>
        last.val.beta.kind = "none"

---------------------------------------------------------------------------
(* get_economic_dashboard and the EconomicIndicator table                   *)
(* (services.py lines 821-857 and 946-1103, models.py lines 151-174).       *)
(* A date is a day number; a table row is a record with the row's primary   *)
(* key id and the three columns indicator_type, date and value.             *)

\* timezone.now().date() during the runs of the model
Today == 400

\* the keys of indicator_mappings in the order the loops visit them
indicator_mappings ==
    << [indicator_type |-> "interest_rate", fred_code |-> "DFF"],
       [indicator_type |-> "unemployment", fred_code |-> "UNRATE"],
       [indicator_type |-> "inflation", fred_code |-> "CPIAUCSL"],
       [indicator_type |-> "gdp", fred_code |-> "GDP"],
       [indicator_type |-> "yield_curve", fred_code |-> "T10Y2Y"] >>

IndicatorTypes == { indicator_mappings[i].indicator_type :
                        i \in DOMAIN indicator_mappings }

\* how often the service may go down or come back during a run
MaxFredFlips == 1

\* the number of revisions FRED publishes of the latest DFF observation
MaxRevision == 2

\* what fred_client.get_series answers for one series id within the
\* requested year: an exception while the service is down, else the
\* observations in date order; the latest DFF observation carries the
\* value of the current revision
FredOutcome(fredCode) ==
    IF ~ fred.up THEN [raise |-> TRUE, series |-> << >>]
    ELSE IF fredCode = "DFF"
    THEN [raise |-> FALSE,
          series |-> << [date |-> Today - 1, value |-> 1],
                        [date |-> Today, value |-> fred.rev] >>]
    ELSE [raise |-> FALSE, series |-> << [date |-> Today, value |-> 1] >>]

\* get_economic_indicator: the observations as a list of date/value
\* dictionaries, the empty list when the request fails
get_economic_indicator(out) == IF out.raise THEN << >> ELSE out.series

\* the rows of one (indicator_type, date) pair
RowsOf(tbl, indicatorType, date) ==
    { r \in tbl : r.indicator_type = indicatorType /\ r.date = date }

\* QuerySet.update_or_create(indicator_type, date, defaults={'value'}):
\* always inserts, as a plain create would without the unique constraint
update_or_create_insertOnly(tbl, indicatorType, date, value) ==
    tbl \cup { [id |-> Cardinality(tbl) + 1, indicator_type |-> indicatorType,
                date |-> date, value |-> value] }

\* QuerySet.update_or_create(indicator_type, date, defaults={'value'}):
\* the row of the pair gets the value, a pair without a row gets a new row;
\* unique_together makes the database refuse a second row for the pair
update_or_create(tbl, indicatorType, date, value) ==
    IF RowsOf(tbl, indicatorType, date) # {}
    THEN { IF r \in RowsOf(tbl, indicatorType, date)
           THEN [r EXCEPT !.value = value] ELSE r : r \in tbl }
    ELSE tbl \cup { [id |-> Cardinality(tbl) + 1,
                     indicator_type |-> indicatorType,
                     date |-> date, value |-> value] }

RECURSIVE SaveItems(_, _, _, _)
\* the loop of lines 1022-1029 from item i on
SaveItems(tbl, indicatorType, data, i) ==
    IF i > Len(data) THEN tbl
    ELSE SaveItems(update_or_create(tbl, indicatorType,
                                    data[i].date, data[i].value),
                   indicatorType, data, i + 1)

\* lines 975-977: the row of the type with the greatest date, as a
\* date/value dictionary
LatestFromDb(tbl, indicatorType) ==
    LET rows == { r \in tbl : r.indicator_type = indicatorType }
        latest == CHOOSE r \in rows : \A o \in rows : o.date <= r.date
    IN  [date |-> latest.date, value |-> latest.value]

RECURSIVE OrderByDate(_)
\* order_by('date') as a list of date/value dictionaries
OrderByDate(rows) ==
    IF rows = {} THEN << >>
    ELSE LET first == CHOOSE r \in rows : \A o \in rows : r.date <= o.date
         IN  << [date |-> first.date, value |-> first.value] >>
             \o OrderByDate(rows \ {first})

\* lines 980-983 and 992-997: the rows of the type of the past year
HistoricalFromDb(tbl, indicatorType) ==
    OrderByDate({ r \in tbl : /\ r.indicator_type = indicatorType
                              /\ r.date >= Today - 365 })

\* the types with a row: the keys of indicators_from_db
TypesInDb(tbl) == { r.indicator_type : r \in tbl }

\* lines 1004-1007: the answer built from the table
DashboardFromDb(tbl) ==
    [ source |-> "db",
      latest |-> [ty \in TypesInDb(tbl) |-> LatestFromDb(tbl, ty)],
      historical |->
          [ty \in { u \in TypesInDb(tbl) : HistoricalFromDb(tbl, u) # << >> }
              |-> HistoricalFromDb(tbl, ty)] ]

\* the number of points of a mock series (range(12, -1, -1))
MockPoints == 13

\* one mock series: a point every 30 days up to today; the generated value
\* is a function of the date alone and is written 0 here
MockSeries ==
    [i \in 1..MockPoints |-> [date |-> Today - (MockPoints - i) * 30,
                              value |-> 0]]

\* generate_mock_economic_data: five series and their last points; nothing
\* is written to the table
generate_mock_economic_data ==
    [ source |-> "mock",
      latest |-> [ty \in IndicatorTypes |-> MockSeries[MockPoints]],
      historical |-> [ty \in IndicatorTypes |-> MockSeries] ]

\* lines 1031-1040: the answer built from the series just fetched
DashboardFromFred(indicators) ==
    [ source |-> "fred",
      latest |-> [ty \in DOMAIN indicators |->
                      indicators[ty][Len(indicators[ty])]],
      historical |-> indicators ]

NoDashboard == [source |-> "none", latest |-> << >>, historical |-> << >>]

\* locals of one get_economic_dashboard call: the loop position idx in
\* indicator_mappings, the list just fetched, the indicators dictionary,
\* the number of FRED requests made so far and the returned value
DashboardFrame(forceRefresh) ==
    [ fn |-> "get_economic_dashboard", force_refresh |-> forceRefresh,
      idx |-> 1, data |-> << >>, indicators |-> << >>,
      fredCalls |-> 0, returned |-> NoDashboard ]

\* the position after the loop body of position i
AfterIndicator(i) ==
    IF i < Len(indicator_mappings) THEN "dash_fetch" ELSE "dash_return"

\* the observations FRED answered last for each (indicator_type, date)
RecordFetch(fetched, indicatorType, data) ==
    { f \in fetched :
        ~ (/\ f.indicator_type = indicatorType
           /\ \E i \in DOMAIN data : data[i].date = f.date) }
    \cup { [indicator_type |-> indicatorType, date |-> data[i].date,
            value |-> data[i].value] : i \in DOMAIN data }

\* a table earlier runs have filled: a row of each type, fetched from FRED
\* more than a year ago
StoredRows ==
    { [id |-> i, indicator_type |-> indicator_mappings[i].indicator_type,
       date |-> Today - 400, value |-> 1] : i \in DOMAIN indicator_mappings }

\* no thread is inside get_economic_dashboard; the table is empty or holds
\* the rows of earlier runs
InitDashboard ==
    /\ clock = 0
    /\ table \in {{}, StoredRows}
    /\ reports = NoReports
    /\ fetcher = NoFetcher
    /\ fred \in {FredUp, [FredUp EXCEPT !.up = FALSE]}
    /\ cache = << >>
    /\ lock = "free"
    /\ pc = [t \in Threads |-> "idle"]
    /\ frame = [t \in Threads |-> DashboardFrame(FALSE)]
    /\ last = [op |-> "get_economic_dashboard", stage |-> "done",
               fetched |-> { [indicator_type |-> r.indicator_type,
                              date |-> r.date, value |-> r.value] :
                             r \in table }]

\* thread t enters get_economic_dashboard(force_refresh)
DashboardCall(t, forceRefresh) ==
    /\ pc[t] \in {"idle", "done"}
    /\ frame' = [frame EXCEPT ![t] = DashboardFrame(forceRefresh)]
    /\ pc' = [pc EXCEPT ![t] = "dash_db"]
    /\ UNCHANGED <<fetcher, reports, fred, table, clock, cache, lock, last>>

\* mutant of DashboardReadDb: force_refresh goes on to the FRED requests
DashboardReadDb_refetch(t) ==
    /\ pc[t] = "dash_db"
    /\ IF /\ ~ frame[t].force_refresh
          /\ Cardinality(TypesInDb(table)) = Len(indicator_mappings)
       THEN /\ frame' = [frame EXCEPT
                           ![t].returned = DashboardFromDb(table)]
            /\ pc' = [pc EXCEPT ![t] = "done"]
       ELSE /\ pc' = [pc EXCEPT ![t] = "dash_fetch"]
            /\ UNCHANGED frame
    /\ UNCHANGED <<fetcher, reports, fred, table, clock, cache, lock, last>>

\* lines 967-1013: the table is read unless force_refresh; a table with all
\* five types is the answer; otherwise force_refresh returns the mock data
DashboardReadDb(t) ==
    /\ pc[t] = "dash_db"
    /\ IF /\ ~ frame[t].force_refresh
          /\ Cardinality(TypesInDb(table)) = Len(indicator_mappings)
       THEN /\ frame' = [frame EXCEPT
                           ![t].returned = DashboardFromDb(table)]
            /\ pc' = [pc EXCEPT ![t] = "done"]
       ELSE IF frame[t].force_refresh
       THEN /\ frame' = [frame EXCEPT
                           ![t].returned = generate_mock_economic_data]
            /\ pc' = [pc EXCEPT ![t] = "done"]
       ELSE /\ pc' = [pc EXCEPT ![t] = "dash_fetch"]
            /\ UNCHANGED frame
    /\ UNCHANGED <<fetcher, reports, fred, table, clock, cache, lock, last>>

\* lines 1017-1019: one get_economic_indicator request of the loop
DashboardFetch(t) ==
    /\ pc[t] = "dash_fetch"
    /\ LET ty == indicator_mappings[frame[t].idx].indicator_type
           data == get_economic_indicator(
                       FredOutcome(indicator_mappings[frame[t].idx].fred_code))
       IN  /\ frame' = [frame EXCEPT
                          ![t].data = data,
                          ![t].fredCalls = @ + 1,
                          ![t].idx = IF data = << >> THEN @ + 1 ELSE @]
           /\ pc' = [pc EXCEPT ![t] =
                       IF data = << >> THEN AfterIndicator(frame[t].idx)
                       ELSE "dash_save"]
           /\ last' = [last EXCEPT
                         !.fetched = RecordFetch(@, ty, data)]
    /\ UNCHANGED <<fetcher, reports, fred, table, clock, cache, lock>>

\* the service goes down or comes back
FredFlip ==
    /\ fred.flips < MaxFredFlips
    /\ fred' = [fred EXCEPT !.up = ~ @, !.flips = @ + 1]
    /\ UNCHANGED <<fetcher, reports, table, clock, cache, lock, pc, frame, last>>

\* FRED publishes a revised value of the latest DFF observation
FredRevise ==
    /\ fred.rev < MaxRevision
    /\ fred' = [fred EXCEPT !.rev = @ + 1]
    /\ UNCHANGED <<fetcher, reports, table, clock, cache, lock, pc, frame, last>>

\* lines 1019-1029: the list is kept and its items are saved
DashboardSave(t) ==
    /\ pc[t] = "dash_save"
    /\ LET ty == indicator_mappings[frame[t].idx].indicator_type
       IN  /\ table' = SaveItems(table, ty, frame[t].data, 1)
           /\ frame' = [frame EXCEPT
                          ![t].indicators = (ty :> frame[t].data) @@ @,
                          ![t].data = << >>,
                          ![t].idx = @ + 1]
    /\ pc' = [pc EXCEPT ![t] = AfterIndicator(frame[t].idx)]
    /\ UNCHANGED <<fetcher, reports, fred, clock, cache, lock, last>>

\* lines 1031-1040
DashboardReturn(t) ==
    /\ pc[t] = "dash_return"
    /\ frame' = [frame EXCEPT
                   ![t].returned = DashboardFromFred(frame[t].indicators)]
    /\ pc' = [pc EXCEPT ![t] = "done"]
    /\ UNCHANGED <<fetcher, reports, fred, table, clock, cache, lock, last>>

NextDashboard ==
    \/ \E t \in Threads : \E forceRefresh \in BOOLEAN :
           DashboardCall(t, forceRefresh)
    \/ \E t \in Threads : DashboardReadDb(t)
    \/ \E t \in Threads : DashboardFetch(t)
    \/ FredFlip
    \/ FredRevise
    \/ \E t \in Threads : DashboardSave(t)
    \/ \E t \in Threads : DashboardReturn(t)

SpecDashboard == InitDashboard /\ [][NextDashboard]_vars

\* no thread is inside get_economic_dashboard
DashboardQuiet == \A t \in Threads : pc[t] \in {"idle", "done"}

\* a get_economic_dashboard call of thread t has returned
DashboardReturned(t) ==
    /\ pc[t] = "done"
    /\ frame[t].returned.source # "none"

\* C18: after any sequence of get_economic_dashboard calls, concurrent ones
\* included, the table holds at most one row per (indicator_type, date) and
\* the row's value is the value of the most recent FRED fetch that
\* contained the pair
C18_OneRowLatestFetch ==
    /\ \A r1, r2 \in table :
           (r1.indicator_type = r2.indicator_type /\ r1.date = r2.date)
               => r1 = r2
    /\ DashboardQuiet =>
           \A r \in table :
               [indicator_type |-> r.indicator_type, date |-> r.date,
                value |-> r.value] \in last.fetched

\* C20: a get_economic_dashboard(force_refresh=True) call that has returned
\* made one FRED request for each of the five indicators and returned what
\* FRED answered
C20_ForceRefreshFetches ==
    \A t \in Threads :
        (DashboardReturned(t) /\ frame[t].force_refresh) =>
            /\ frame[t].fredCalls = Len(indicator_mappings)
            /\ frame[t].returned.source = "fred"

\* C21: a get_economic_dashboard(force_refresh=False) call that found the
\* table without all five types and got no data from FRED for any indicator
\* returns the mock data: 'latest' and 'historical' hold all five types
C21_MockWhenFredFails ==
    \A t \in Threads :
        ( /\ DashboardReturned(t)
          /\ ~ frame[t].force_refresh
          /\ frame[t].fredCalls = Len(indicator_mappings)
          /\ DOMAIN frame[t].indicators = {} )
        => /\ DOMAIN frame[t].returned.latest = IndicatorTypes
           /\ DOMAIN frame[t].returned.historical = IndicatorTypes

\* the table has a row of each of the five types
TableComplete(tbl) == TypesInDb(tbl) = IndicatorTypes

\* the points the mock generator makes
MockPointSet == { MockSeries[i] : i \in DOMAIN MockSeries }

---------------------------------------------------------------------------
(* get_comprehensive_stock_analysis (services.py lines 1266-1296) run by    *)
(* one caller on an empty request cache: within the run every decorated    *)
(* function is computed once from its provider's answer and later calls     *)
(* of it get that value back.                                               *)

Providers == {"SEC", "Polygon", "FRED"}

\* get_company_info_with_fallback on the answers of the two providers
\* (lines 747-802)
get_company_info_with_fallback(secOut, polyOut) ==
    LET ci == get_company_info_sec_body(secOut).val
        poly == get_company_info_body(polyOut)
    IN IF SecUsable(ci)
       THEN IF Incomplete(ci) /\ ~poly.exc /\ poly.val # NoneResult
            THEN MergeCompanyInfo(ci, poly.val)
            ELSE ci
       ELSE SecFailedResult(poly)

\* get_financial_ratios_with_fallback on the answers of the two providers
\* (lines 666-743): the SEC record of the 10-K, else of the 10-Q, is kept
\* only if one of its ratios has a value
get_financial_ratios_with_fallback(kOut, qOut, polyOut) ==
    LET k == get_financial_statements_body(kOut).val
        q == get_financial_statements_body(qOut).val
        filings == IF k = << >> THEN q ELSE k
        ratios == IF filings = << >> THEN NoneResult
                  ELSE SecRatiosRecord(filings[1])
    IN IF HasRatioValue(ratios) THEN ratios
       ELSE RatiosAfterPolygon(ratios, get_financial_ratios_body(polyOut))

\* a float of the technical row in 1/100, the unit the score's comparisons
\* of close, sma_20 and sma_50 are made in; exact for the windows 20 and 50
ScoreFloat(x) ==
    IF x.kind = "nan" THEN NaN ELSE Num((x.n * 100) \div x.d)

\* the RSI in whole points, rounded away from the band of 30 to 70 so that
\* its comparisons with 30 and 70 keep their outcome
ScoreRsi(x) ==
    IF x.kind = "nan" THEN NaN
    ELSE IF x.n > 70 * x.d THEN Num((x.n + x.d - 1) \div x.d)
    ELSE Num(x.n \div x.d)

\* technical_indicators as calculate_investment_score reads it
ScoreTechnical(technical) ==
    IF technical = NoneResult THEN NoneResult
    ELSE [ rsi_14 |-> ScoreRsi(technical.rsi_14),
           sma_20 |-> ScoreFloat(technical.sma_20),
           sma_50 |-> ScoreFloat(technical.sma_50),
           close |-> Num(technical.close * 100) ]

RECURSIVE FetchAndSave(_, _, _)
\* the loop of lines 1016-1029 from position i on: the indicators
\* dictionary and the table it leaves
FetchAndSave(tbl, indicators, i) ==
    IF i > Len(indicator_mappings) THEN [indicators |-> indicators, table |-> tbl]
    ELSE LET ty == indicator_mappings[i].indicator_type
             data == get_economic_indicator(
                         FredOutcome(indicator_mappings[i].fred_code))
         IN IF data = << >> THEN FetchAndSave(tbl, indicators, i + 1)
            ELSE FetchAndSave(SaveItems(tbl, ty, data, 1),
                              (ty :> data) @@ indicators, i + 1)

\* get_economic_dashboard(force_refresh) run by a single caller: the value
\* returned and the table afterwards
get_economic_dashboard(tbl, forceRefresh) ==
    IF ~forceRefresh /\ Cardinality(TypesInDb(tbl)) = Len(indicator_mappings)
    THEN [val |-> DashboardFromDb(tbl), table |-> tbl]
    ELSE IF forceRefresh
    THEN [val |-> generate_mock_economic_data, table |-> tbl]
    ELSE LET run == FetchAndSave(tbl, << >>, 1)
         IN [val |-> DashboardFromFred(run.indicators), table |-> run.table]

\* the series get_industry_data_fred asks for (lines 870-875)
IndustryIndicators ==
    << [name |-> "industrial_production", fred_code |-> "INDPRO"],
       [name |-> "capacity_utilization", fred_code |-> "TCU"],
       [name |-> "manufacturing_pmi", fred_code |-> "NAPM"],
       [name |-> "business_inventories", fred_code |-> "BUSINV"] >>

\* get_industry_data_fred(): an entry for every series with data
get_industry_data_fred ==
    LET data(i) == get_economic_indicator(FredOutcome(IndustryIndicators[i].fred_code))
        named == { i \in DOMAIN IndustryIndicators : data(i) # << >> }
    IN [ name \in { IndustryIndicators[i].name : i \in named } |->
           LET i == CHOOSE j \in named : IndustryIndicators[j].name = name
           IN [current |-> data(i)[Len(data(i))], historical |-> data(i)] ]

\* the series get_sector_performance_fred asks for (lines 906-913)
SectorSeries ==
    << [name |-> "technology", fred_code |-> "IPMINE"],
       [name |-> "healthcare", fred_code |-> "USEHLTHNS"],
       [name |-> "energy", fred_code |-> "IPG2211A2N"],
       [name |-> "financials", fred_code |-> "USFIRE"],
       [name |-> "consumer", fred_code |-> "DPCERE1Q156NBEA"],
       [name |-> "manufacturing", fred_code |-> "AMTMNO"] >>

\* change_pct of lines 926-932 as a quotient
ChangePct(data) ==
    LET current == data[Len(data)].value
        start == data[1].value
    IN IF start > 0 THEN Ratio((current - start) * 100, start) ELSE Ratio(0, 1)

\* get_sector_performance_fred(): an entry for every series with data
get_sector_performance_fred ==
    LET data(i) == get_economic_indicator(FredOutcome(SectorSeries[i].fred_code))
        named == { i \in DOMAIN SectorSeries : data(i) # << >> }
    IN [ name \in { SectorSeries[i].name : i \in named } |->
           LET i == CHOOSE j \in named : SectorSeries[j].name = name
           IN [ value |-> data(i)[Len(data(i))].value,
                change_pct |-> ChangePct(data(i)),
                historical |-> data(i) ] ]

\* the answers of the model. A provider that fails raises on every request
\* of the run; one that works answers every request with data: company
\* data with or without a sector, a 10-K and a 10-Q, financials, a short
\* or a long price history
SecCompanyAnswers(failed) ==
    IF "SEC" \in failed THEN { [raise |-> TRUE, rec |-> NoneResult] }
    ELSE { [raise |-> FALSE, rec |-> r] :
           r \in { c \in SecCompanyRecords :
                     /\ c.description = "S1" /\ c.industry = "S1"
                     /\ c.market_cap = None } }

PolygonCompanyAnswers(failed) ==
    IF "Polygon" \in failed THEN { [raise |-> TRUE, rec |-> NoneResult] }
    ELSE { [raise |-> FALSE, rec |-> r] :
           r \in { c \in PolygonCompanyRecords :
                     c.description = "P1" /\ c.market_cap = "P1" } }

\* the answers to the 10-K and to the 10-Q request
FilingAnswers(failed) ==
    IF "SEC" \in failed
    THEN { << [raise |-> TRUE, filings |-> << >>],
              [raise |-> TRUE, filings |-> << >>] >> }
    ELSE { << [raise |-> FALSE,
               filings |-> << [form_type |-> "10-K", reporting_date |-> d,
                               url |-> "S1"] >>],
              [raise |-> FALSE,
               filings |-> << [form_type |-> "10-Q", reporting_date |-> "S1",
                               url |-> "S1"] >>] >> :
           d \in {None, "S1"} }

PolygonRatiosAnswers(failed) ==
    IF "Polygon" \in failed THEN { [raise |-> TRUE, rec |-> NoneResult] }
    ELSE { [raise |-> FALSE,
            rec |-> [ratios |-> [profit_margin |-> m, roe |-> Num(2000),
                                 roa |-> NoNum, debt_to_equity |-> Num(70)]]] :
           m \in {NoNum, Num(1666)} }

PriceAnswers(failed) ==
    IF "Polygon" \in failed THEN { [raise |-> TRUE, rows |-> << >>] }
    ELSE { [raise |-> FALSE,
            rows |-> [i \in 1..n |->
                        [date |-> i, close |-> ShapeClose("zigzag", n, 10, i)]]] :
           n \in {1, Sma50Window + 2} }

SpyAnswers(failed) ==
    IF "Polygon" \in failed THEN { [raise |-> TRUE, rows |-> << >>] }
    ELSE { [raise |-> FALSE,
            rows |-> [j \in 1..3 |->
                        [date |-> j, close |-> ShapeClose("down", 3, 10, j)]]] }

\* a caller has entered get_comprehensive_stock_analysis(ticker); the
\* providers that fail and the answers of the others are fixed
InitComprehensive ==
    /\ clock = 0
    /\ table = {}
    /\ reports = NoReports
    /\ fetcher = NoFetcher
    /\ cache = << >>
    /\ lock = "free"
    /\ pc = [t \in Threads |-> "idle"]
    /\ frame = [t \in Threads |-> NewFrame("none", None)]
    /\ \E failed \in SUBSET Providers :
         /\ fred = [FredUp EXCEPT !.up = "FRED" \notin failed]
         /\ \E secOut \in SecCompanyAnswers(failed) :
            \E polyOut \in PolygonCompanyAnswers(failed) :
            \E filingOut \in FilingAnswers(failed) :
            \E ratiosOut \in PolygonRatiosAnswers(failed) :
            \E priceOut \in PriceAnswers(failed) :
            \E spyOut \in SpyAnswers(failed) :
              last = [ op |-> "get_comprehensive_stock_analysis",
                       stage |-> "company_info",
                       failed |-> failed,
                       secOut |-> secOut, polyOut |-> polyOut,
                       kOut |-> filingOut[1], qOut |-> filingOut[2],
                       ratiosOut |-> ratiosOut,
                       priceOut |-> priceOut, spyOut |-> spyOut,
                       company_info |-> NoneResult,
                       industry_data |-> NoneResult,
                       results |-> << >>,
                       raised |-> FALSE,
                       val |-> NoneResult ]

\* the values the run computes from the answers; a function is computed
\* once and its later calls get the cached value
RunCompanyInfo == get_company_info_with_fallback(last.secOut, last.polyOut)
RunPriceData == get_stock_price_data_body(last.priceOut)
RunTechnical ==
    get_technical_indicators(RunPriceData,
                             get_stock_price_data_body(last.spyOut))
RunFinancialRatios ==
    get_financial_ratios_with_fallback(last.kOut, last.qOut, last.ratiosOut)

\* one entry of the results dictionary is evaluated
PutResult(stage, key, value, next) ==
    /\ last.op = "get_comprehensive_stock_analysis"
    /\ last.stage = stage
    /\ last' = [last EXCEPT !.results = (key :> value) @@ @,
                            !.stage = next]

\* line 1272
ComprehensiveCompanyInfo ==
    /\ last.op = "get_comprehensive_stock_analysis"
    /\ last.stage = "company_info"
    /\ last' = [last EXCEPT !.company_info = RunCompanyInfo,
                            !.stage = "industry_data"]
    /\ UNCHANGED <<fetcher, reports, fred, table, clock, cache, lock, pc, frame>>

\* lines 1275-1277: FRED is asked only for a company with a sector
ComprehensiveIndustryData ==
    /\ last.op = "get_comprehensive_stock_analysis"
    /\ last.stage = "industry_data"
    /\ last' = [last EXCEPT
                  !.industry_data =
                      IF /\ last.company_info # NoneResult
                         /\ Truthy(last.company_info.sector)
                      THEN get_industry_data_fred
                      ELSE NoneResult,
                  !.stage = "price_data"]
    /\ UNCHANGED <<fetcher, reports, fred, table, clock, cache, lock, pc, frame>>

\* lines 1280-1281
ComprehensivePriceData ==
    /\ last.op = "get_comprehensive_stock_analysis"
    /\ last.stage = "price_data"
    /\ last' = [last EXCEPT
                  !.results = [company_info |-> last.company_info,
                               price_data |-> RunPriceData],
                  !.stage = "technical_indicators"]
    /\ UNCHANGED <<fetcher, reports, fred, table, clock, cache, lock, pc, frame>>

\* line 1282
ComprehensiveTechnical ==
    /\ PutResult("technical_indicators", "technical_indicators",
                 RunTechnical, "financial_ratios")
    /\ UNCHANGED <<fetcher, reports, fred, table, clock, cache, lock, pc, frame>>

\* line 1283
ComprehensiveFinancialRatios ==
    /\ PutResult("financial_ratios", "financial_ratios",
                 RunFinancialRatios, "financial_statements")
    /\ UNCHANGED <<fetcher, reports, fred, table, clock, cache, lock, pc, frame>>

\* line 1284: get_financial_statements(ticker) is the 10-K request
ComprehensiveStatements ==
    /\ PutResult("financial_statements", "financial_statements",
                 get_financial_statements_body(last.kOut).val,
                 "investment_score")
    /\ UNCHANGED <<fetcher, reports, fred, table, clock, cache, lock, pc, frame>>

\* line 1285
ComprehensiveScore ==
    /\ PutResult("investment_score", "investment_score",
                 calculate_investment_score(RunCompanyInfo, RunPriceData,
                                            ScoreTechnical(RunTechnical),
                                            RunFinancialRatios),
                 "economic_indicators")
    /\ UNCHANGED <<fetcher, reports, fred, table, clock, cache, lock, pc, frame>>

\* line 1286: get_economic_dashboard()['latest']
ComprehensiveEconomic ==
    /\ PutResult("economic_indicators", "economic_indicators",
                 get_economic_dashboard(table, FALSE).val.latest,
                 "sector_performance")
    /\ table' = get_economic_dashboard(table, FALSE).table
    /\ UNCHANGED <<fetcher, reports, fred, clock, cache, lock, pc, frame>>

\* lines 1287-1288
ComprehensiveSector ==
    /\ last.op = "get_comprehensive_stock_analysis"
    /\ last.stage = "sector_performance"
    /\ last' = [last EXCEPT
                  !.results = ("industry_data" :> last.industry_data)
                              @@ ("sector_performance" :>
                                      get_sector_performance_fred) @@ @,
                  !.stage = "return"]
    /\ UNCHANGED <<fetcher, reports, fred, table, clock, cache, lock, pc, frame>>

\* line 1291; no callee lets an exception out, so the handler of lines
\* 1293-1295 has nothing to catch
ComprehensiveReturn ==
    /\ last.op = "get_comprehensive_stock_analysis"
    /\ last.stage = "return"
    /\ last' = [last EXCEPT !.val = last.results, !.stage = "done"]
    /\ UNCHANGED <<fetcher, reports, fred, table, clock, cache, lock, pc, frame>>

NextComprehensive ==
    \/ ComprehensiveCompanyInfo
    \/ ComprehensiveIndustryData
    \/ ComprehensivePriceData
    \/ ComprehensiveTechnical
    \/ ComprehensiveFinancialRatios
    \/ ComprehensiveStatements
    \/ ComprehensiveScore
    \/ ComprehensiveEconomic
    \/ ComprehensiveSector
    \/ ComprehensiveReturn

SpecComprehensive == InitComprehensive /\ [][NextComprehensive]_vars

\* a call of get_comprehensive_stock_analysis that has returned
ComprehensiveReturned ==
    /\ last.op = "get_comprehensive_stock_analysis"
    /\ last.stage = "done"

ResultKeys ==
    { "company_info", "price_data", "technical_indicators",
      "financial_ratios", "financial_statements", "investment_score",
      "economic_indicators", "industry_data", "sector_performance" }

\* the providers a sub-result draws on: industry_data is fetched from FRED
\* for a company whose sector SEC or Polygon supplied
SubResultProviders(key) ==
    CASE key \in {"price_data", "technical_indicators"} -> {"Polygon"}
      [] key = "financial_statements" -> {"SEC"}
      [] key \in {"company_info", "financial_ratios", "investment_score"} ->
             {"SEC", "Polygon"}
      [] key \in {"economic_indicators", "sector_performance"} -> {"FRED"}
      [] key = "industry_data" -> {"SEC", "Polygon", "FRED"}

\* the sub-result is there: not None, not an empty list or dictionary
Present(key, value) ==
    CASE key \in {"price_data", "financial_statements"} -> value # << >>
      [] key \in {"economic_indicators", "sector_performance"} ->
             DOMAIN value # {}
      [] key = "industry_data" ->
             value # NoneResult /\ DOMAIN value # {}
      [] OTHER -> value # NoneResult

\* C17: whichever providers fail, get_comprehensive_stock_analysis returns
\* a record with all nine keys, never None and never an exception; a
\* sub-result whose providers all succeeded is present and one whose
\* providers all failed is null or empty
C17_PartialResults ==
    ComprehensiveReturned =>
        /\ ~last.raised
        /\ DOMAIN last.val = ResultKeys
        /\ \A key \in ResultKeys :
               /\ SubResultProviders(key) \cap last.failed = {}
                      => Present(key, last.val[key])
               /\ SubResultProviders(key) \subseteq last.failed
                      => ~Present(key, last.val[key])

\* the nine keys are returned whichever providers fail
ComprehensiveNineKeys ==
    ComprehensiveReturned => ~last.raised /\ DOMAIN last.val = ResultKeys

\* every sub-result but industry_data follows its providers
ComprehensiveOtherKeys ==
    ComprehensiveReturned =>
        \A key \in ResultKeys \ {"industry_data"} :
            /\ SubResultProviders(key) \cap last.failed = {}
                   => Present(key, last.val[key])
            /\ SubResultProviders(key) \subseteq last.failed
                   => ~Present(key, last.val[key])

---------------------------------------------------------------------------
(* Report endpoints of the dashboard: new_report, delete_report,           *)
(* rename_report, submit_text                                              *)

\* the most Report rows ever created in one behaviour
MaxReports == 2

\* report ids a request can name: those handed out and one never handed out
ReportIds == 1 .. (MaxReports + 1)

Methods == {"GET", "POST"}

\* request.POST.get(...): None when the field is absent, or the posted string
PostedValues == {None, "", "v1", "v2"}

\* Python truth of a posted value: None and the empty string are false
Posted(v) == v \notin {None, ""}

\* JsonResponse({... 'error': error}, status=400)
JsonError(error) == [status |-> 400, json |-> TRUE, error |-> error]

\* JsonResponse({'success': True, ...})
JsonSuccess == [status |-> 200, json |-> TRUE, error |-> None]

\* redirect(...)
Redirect == [status |-> 302, json |-> FALSE, error |-> None]

\* render(request, template, context)
Rendered == [status |-> 200, json |-> FALSE, error |-> None]

\* get_object_or_404 found no row: Http404 leaves the view
Http404 == [status |-> 404, json |-> FALSE, error |-> None]

\* report.delete()
DeleteRow(db, id) ==
    [db EXCEPT !.rows = [i \in DOMAIN db.rows \ {id} |-> db.rows[i]]]

\* Report.objects.create(name=..., report_type=..., description=...)
CreateRow(db, name, report_type) ==
    [rows |-> [i \in DOMAIN db.rows \cup {db.nextId} |->
                  IF i = db.nextId
                  THEN [name |-> name, report_type |-> report_type,
                        submitted_text |-> None]
                  ELSE db.rows[i]],
     nextId |-> db.nextId + 1]

new_report(db, method, name, report_type) ==
    IF method = "POST" /\ Posted(name) /\ Posted(report_type)
    THEN [db |-> CreateRow(db, name, report_type), response |-> Redirect]
    ELSE [db |-> db, response |-> Rendered]

delete_report(db, method, report_id) ==
    IF method = "POST"
    THEN IF report_id \in DOMAIN db.rows
         THEN [db |-> DeleteRow(db, report_id), response |-> Redirect]
         ELSE [db |-> db, response |-> Http404]
    ELSE [db |-> db, response |-> JsonError("Invalid request method")]

\* mutant of rename_report: the posted name is saved without the test of it
rename_report_unchecked(db, method, report_id, new_name) ==
    IF method = "POST"
    THEN IF report_id \in DOMAIN db.rows
         THEN [db |-> [db EXCEPT !.rows[report_id].name = new_name],
               response |-> JsonSuccess]
         ELSE [db |-> db, response |-> Http404]
    ELSE [db |-> db, response |-> JsonError("Invalid request")]

rename_report(db, method, report_id, new_name) ==
    IF method = "POST"
    THEN IF report_id \in DOMAIN db.rows
         THEN IF Posted(new_name)
              THEN [db |-> [db EXCEPT !.rows[report_id].name = new_name],
                    response |-> JsonSuccess]
              ELSE [db |-> db, response |-> JsonError("Invalid request")]
         ELSE [db |-> db, response |-> Http404]
    ELSE [db |-> db, response |-> JsonError("Invalid request")]

submit_text(db, method, report_id, submitted_text) ==
    IF method = "POST"
    THEN IF report_id \in DOMAIN db.rows
         THEN IF Posted(submitted_text)
              THEN [db |-> [db EXCEPT
                              !.rows[report_id].submitted_text = submitted_text],
                    response |-> JsonSuccess]
              ELSE [db |-> db, response |-> JsonError("Text cannot be empty")]
         ELSE [db |-> db, response |-> Http404]
    ELSE [db |-> db, response |-> JsonError("Invalid request method")]

\* one request served: the table after it and what the client got
Serve(op, method, report_id, value, out) ==
    /\ reports' = out.db
    /\ last' = [op |-> op, stage |-> "done", method |-> method,
                report_id |-> report_id, value |-> value,
                before |-> reports, response |-> out.response]
    /\ UNCHANGED <<fetcher, fred, table, clock, cache, lock, pc, frame>>

NewReport(method, name, report_type) ==
    /\ reports.nextId <= MaxReports
    /\ Serve("new_report", method, 0, name,
             new_report(reports, method, name, report_type))

DeleteReport(method, report_id) ==
    Serve("delete_report", method, report_id, None,
          delete_report(reports, method, report_id))

RenameReport(method, report_id, new_name) ==
    Serve("rename_report", method, report_id, new_name,
          rename_report(reports, method, report_id, new_name))

SubmitText(method, report_id, submitted_text) ==
    Serve("submit_text", method, report_id, submitted_text,
          submit_text(reports, method, report_id, submitted_text))

NextReports ==
    \/ \E m \in Methods : \E n \in PostedValues :
         \E rt \in {None, "individual"} : NewReport(m, n, rt)
    \/ \E m \in Methods : \E id \in ReportIds : DeleteReport(m, id)
    \/ \E m \in Methods : \E id \in ReportIds : \E v \in PostedValues :
         RenameReport(m, id, v)
    \/ \E m \in Methods : \E id \in ReportIds : \E v \in PostedValues :
         SubmitText(m, id, v)

SpecReports == Init /\ [][NextReports]_vars

---------------------------------------------------------------------------
(* Claims about the report endpoints, checked under SpecReports *)

\* the last request went to one of the three endpoints
ReportRequest == last.op \in {"delete_report", "rename_report", "submit_text"}

\* the last request carried no usable value for the field its endpoint needs
ValueMissing ==
    last.op \in {"rename_report", "submit_text"} /\ ~Posted(last.value)

BadRequest400 == last.response.status = 400 /\ last.response.json

\* the table differs from the one before the request only by the effect of
\* the endpoint on the row of the request's id
EffectOnRow ==
    /\ last.method = "POST"
    /\ last.report_id \in DOMAIN last.before.rows
    /\ last.op # "delete_report" => Posted(last.value)
    /\ reports =
         CASE last.op = "delete_report" -> DeleteRow(last.before, last.report_id)
           [] last.op = "rename_report" ->
                [last.before EXCEPT !.rows[last.report_id].name = last.value]
           [] last.op = "submit_text" ->
                [last.before EXCEPT
                    !.rows[last.report_id].submitted_text = last.value]

\* C22 as stated: every request that is not a POST, and every POST without a
\* value for name / submitted_text, is answered 400 with a JSON error and
\* changes no Report; a Report changes only by a POST with a valid value
\* for an existing id
C22_BadRequestRejected ==
    ReportRequest =>
        /\ (last.method # "POST" \/ ValueMissing)
            => (BadRequest400 /\ reports = last.before)
        /\ reports # last.before => EffectOnRow

\* C22 amended: a non-POST request, and a POST for an existing report
\* without a value for name / submitted_text, is answered 400 with a JSON
\* error; a POST for an id with no Report is answered 404 whatever it
\* carries; none of these changes a Report, and a Report changes only by a
\* POST with a valid value for an existing id
C22_BadRequestRejectedExisting ==
    ReportRequest =>
        /\ ( \/ last.method # "POST"
             \/ (ValueMissing /\ last.report_id \in DOMAIN last.before.rows) )
            => (BadRequest400 /\ reports = last.before)
        /\ (last.method = "POST"
                /\ last.report_id \notin DOMAIN last.before.rows)
            => (last.response.status = 404 /\ reports = last.before)
        /\ reports # last.before => EffectOnRow

C22_Witness ==
    /\ last.op = "rename_report"
    /\ last.method = "POST"
    /\ last.report_id \in DOMAIN last.before.rows
    /\ last.value = ""
    /\ BadRequest400
    /\ reports = last.before
    /\ reports.rows[last.report_id].name = "v1"

---------------------------------------------------------------------------
(* Retry loops of AlphaVantageFetcher and StockDataFetcher                 *)

\* the largest max_retries a fetcher is constructed with
MaxRetries == 3

\* the delays, in seconds, a fetcher is constructed with
Delays == {1, 2}

\* time.time() when the fetch is called
FetchTime == 10

FetchMethods ==
    {"get_time_series", "get_fundamental_data", "get_technical_indicators",
     "get_stock_data"}

\* what one provider request can do: answer with data, answer with an empty
\* frame (tested by get_stock_data only), or raise
ProviderOutcomes == {"ok", "empty", "raise"}

\* a fetcher as constructed, entering `method`; `valid` says whether the
\* report_type / indicator / interval argument is one the method knows
NewFetcher(method, valid, max_retries, delay, last_request_time) ==
    [ method |-> method, valid |-> valid,
      max_retries |-> max_retries, delay |-> delay,
      now |-> FetchTime, last_request_time |-> last_request_time,
      pc |-> "start", attempt |-> 0,
      attempts |-> 0, providerCalls |-> 0, successes |-> 0, failures |-> 0,
      backoffs |-> 0, backoffSlept |-> 0, rlSlept |-> 0,
      returned |-> "pending", raised |-> FALSE ]

\* _enforce_rate_limit: sleep what is left of the delay since the last request
EnforceRateLimit(f) ==
    LET since == f.now - f.last_request_time
        wait == IF since < f.delay THEN f.delay - since ELSE 0
    IN [f EXCEPT !.now = @ + wait, !.rlSlept = @ + wait,
                 !.last_request_time = f.now + wait]

\* the else branch of the method's dispatch: raise ValueError(...) before any
\* provider request
RaisesValueError(f) ==
    f.method \in {"get_fundamental_data", "get_technical_indicators"}
        /\ ~f.valid

\* mutant of IsLastAttempt: the test is off by one
IsLastAttempt_offByOne(attempt, max_retries) == attempt = max_retries

\* if attempt == self.max_retries - 1
IsLastAttempt(attempt, max_retries) == attempt = max_retries - 1

\* return None / return data
FetchReturn(f, value) == [f EXCEPT !.pc = "done", !.returned = value]

\* the except branch of one attempt
AttemptFailed(f) ==
    LET f1 == [f EXCEPT !.failures = @ + 1]
    IN IF IsLastAttempt(f.attempt, f.max_retries)
       THEN FetchReturn(f1, None)
       ELSE [f1 EXCEPT !.backoffs = @ + 1,
                       !.backoffSlept = @ + f.delay * 2,
                       !.now = @ + f.delay * 2,
                       !.attempt = @ + 1]

\* one pass of `for attempt in range(self.max_retries)` whose provider
\* request, if one is made, does `out`
Attempt(f, out) ==
    LET f1 == [EnforceRateLimit(f) EXCEPT !.attempts = @ + 1]
        f2 == [f1 EXCEPT !.providerCalls = @ + 1]
    IN IF RaisesValueError(f) THEN AttemptFailed(f1)
       ELSE IF out = "raise" THEN AttemptFailed(f2)
       ELSE IF out = "empty" /\ f.method = "get_stock_data"
            THEN FetchReturn([f2 EXCEPT !.successes = @ + 1], None)
       ELSE FetchReturn([f2 EXCEPT !.successes = @ + 1], "data")

InitRetry ==
    /\ clock = 0
    /\ table = {}
    /\ fred = FredUp
    /\ reports = NoReports
    /\ cache = << >>
    /\ lock = "free"
    /\ pc = [t \in Threads |-> "idle"]
    /\ frame = [t \in Threads |-> NewFrame("none", None)]
    /\ last = NoLast
    /\ fetcher \in { NewFetcher(m, v, r, d, l) :
                        m \in FetchMethods, v \in BOOLEAN,
                        r \in 0 .. MaxRetries, d \in Delays,
                        l \in {0, FetchTime} }

\* the code before the loop: get_stock_data validates its interval and
\* returns None for one it does not know
FetchStart ==
    /\ fetcher.pc = "start"
    /\ fetcher' = IF fetcher.method = "get_stock_data" /\ ~fetcher.valid
                  THEN FetchReturn(fetcher, None)
                  ELSE [fetcher EXCEPT !.pc = "loop"]
    /\ UNCHANGED <<reports, fred, table, clock, cache, lock, pc, frame, last>>

FetchAttempt(out) ==
    /\ fetcher.pc = "loop"
    /\ fetcher.attempt < fetcher.max_retries
    /\ out = "empty" => fetcher.method = "get_stock_data"
    /\ fetcher' = Attempt(fetcher, out)
    /\ UNCHANGED <<reports, fred, table, clock, cache, lock, pc, frame, last>>

\* range(self.max_retries) is used up: the method ends without a return
\* statement, which returns None
FetchLoopEnd ==
    /\ fetcher.pc = "loop"
    /\ fetcher.attempt >= fetcher.max_retries
    /\ fetcher' = FetchReturn(fetcher, None)
    /\ UNCHANGED <<reports, fred, table, clock, cache, lock, pc, frame, last>>

NextRetry ==
    \/ FetchStart
    \/ \E out \in ProviderOutcomes : FetchAttempt(out)
    \/ FetchLoopEnd

\* a started fetch keeps running: its only waits are sleeps that end
SpecRetry == InitRetry /\ [][NextRetry]_vars /\ WF_vars(NextRetry)

---------------------------------------------------------------------------
(* Claims about the retry loops, checked under SpecRetry *)

RetryBounded ==
    /\ fetcher.providerCalls <= fetcher.attempts
    /\ fetcher.attempts <= fetcher.max_retries
    /\ fetcher.attempts = fetcher.successes + fetcher.failures
    /\ ~fetcher.raised

\* a success is the last thing a fetch does
FirstSuccessReturned ==
    /\ fetcher.successes <= 1
    /\ fetcher.successes = 1 => fetcher.pc = "done"
    /\ fetcher.returned = "data" => fetcher.successes = 1

\* after max_retries failures in a row the fetch has returned None
ExhaustedReturnsNone ==
    (fetcher.max_retries > 0 /\ fetcher.failures = fetcher.max_retries)
        => (fetcher.pc = "done" /\ fetcher.returned = None)

\* delay * 2 is slept after every failed attempt but the max_retries-th
BackoffBetweenAttempts ==
    /\ fetcher.backoffSlept = fetcher.backoffs * (fetcher.delay * 2)
    /\ fetcher.backoffs =
          IF fetcher.max_retries > 0 /\ fetcher.failures = fetcher.max_retries
          THEN fetcher.failures - 1
          ELSE fetcher.failures

====
